---- MODULE Spec2Model ----
(***************************************************************************)
(* avro-sqlite: the type mapper (sqliteTypeToAvroSchema), the default      *)
(* resolution (toDefaultValueType, AvroDefault), the catalog reader        *)
(* (ReadSchema) and the schema translator (ToAvro).                        *)
(*                                                                         *)
(* Sources: src/unnamed/part_009 (sqlite.go, latest revision) and          *)
(* src/unnamed/part_005 (avro.go, latest revision).  The constructors of   *)
(* github.com/hamba/avro v1.8.0 that the code calls (NewUnionSchema,       *)
(* NewField, NewRecordSchema) are modelled at their call sites.            *)
(***************************************************************************)
EXTENDS Integers, Sequences, FiniteSets, TLC

VARIABLES catalog, schema, out, tables, data, stream, dest, res

vars == <<catalog, schema, out, tables, data, stream, dest, res>>

\* the state of the row codec, of LoadAvro and of the export
ioVars == <<tables, data, stream, dest, res>>

(***************************************************************************)
(* Bounds of the model.                                                    *)
(***************************************************************************)
\* longest field list of a schema (and column list of a table)
MaxFields == 2

(***************************************************************************)
(* Go values held in an `any`: a dynamic kind k with a payload.  n is the  *)
(* integer payload (the decimal mantissa of a float64, whose value is      *)
(* n * 10^e), s the character payload of a string or of a []byte.          *)
(***************************************************************************)
GoVal(k, n, e, s) == [k |-> k, n |-> n, e |-> e, s |-> s]

GoNil == GoVal("nil", 0, 0, <<>>)

\* avro.NoDefault, the library's "no default" sentinel
NoDefault == GoVal("nodefault", 0, 0, <<>>)

GoInt64(n) == GoVal("int64", n, 0, <<>>)

GoInt(n) == GoVal("int", n, 0, <<>>)

GoFloat64(n, e) == GoVal("float64", n, e, <<>>)

GoString(s) == GoVal("string", 0, 0, s)

GoBytes(s) == GoVal("bytes", 0, 0, s)

GoBool(b) == GoVal("bool", IF b THEN 1 ELSE 0, 0, <<>>)

\* a value of a type none of the type assertions match ([]int{1, 2, 3})
GoIntSlice == GoVal("[]int", 0, 0, <<>>)

(***************************************************************************)
(* The storage types and their zero values.                                *)
(***************************************************************************)
SqliteNull == "null"

SqliteInteger == "integer"

SqliteReal == "real"

SqliteText == "text"

SqliteBlob == "blob"

SqliteBoolean == "boolean"

SqliteIntegerDefault == GoInt(0)

SqliteRealDefault == GoFloat64(0, 0)

SqliteTextDefault == GoString(<<>>)

SqliteBlobDefault == GoBytes(<<>>)

Namespace == "com.github.britt.avrosqlite"

(***************************************************************************)
(* Errors.  kind "nil" is the nil error.  A wrapping error (fmt.Errorf     *)
(* with %w) keeps the kind and the carried value of the error it wraps in  *)
(* cause and value.                                                        *)
(***************************************************************************)
Err(kind, cause, value) == [kind |-> kind, cause |-> cause, value |-> value]

NilErr == Err("nil", "", "")

Wrap(msg, e) == Err(msg, e.kind, e.value)

(***************************************************************************)
(* Avro schemas.  A primitive schema is its type name; a union lists the   *)
(* type names of its branches in order.  NilSchema is the nil avro.Schema. *)
(***************************************************************************)
Prim(t) == [type |-> t, branches |-> <<>>]

NilSchema == Prim("")

nullSchema == Prim("null")

longSchema == Prim("long")

doubleSchema == Prim("double")

stringSchema == Prim("string")

bytesSchema == Prim("bytes")

booleanSchema == Prim("boolean")

\* avro.NewUnionSchema (hamba/avro v1.8.0): a union may not hold a union, nor
\* two branches of the same type name; the branches keep the given order.
NewUnionSchema(types) ==
  IF \E i \in 1..Len(types) : types[i].type = "union"
  THEN [schema |-> NilSchema, err |-> Err("avro: union type cannot be a union", "", "")]
  ELSE IF \E i, j \in 1..Len(types) : i # j /\ types[i].type = types[j].type
  THEN [schema |-> NilSchema, err |-> Err("avro: union type must be unique", "", "")]
  ELSE [schema |-> [type |-> "union", branches |-> [i \in 1..Len(types) |-> types[i].type]],
        err |-> NilErr]

\* mutant: the integer case picks the 32-bit int schema
avroPrimitive_IntegerAsInt(t) ==
  CASE t = SqliteNull    -> [schema |-> nullSchema, err |-> NilErr]
    [] t = SqliteInteger -> [schema |-> Prim("int"), err |-> NilErr]
    [] t = SqliteReal    -> [schema |-> doubleSchema, err |-> NilErr]
    [] t = SqliteText    -> [schema |-> stringSchema, err |-> NilErr]
    [] t = SqliteBlob    -> [schema |-> bytesSchema, err |-> NilErr]
    [] t = SqliteBoolean -> [schema |-> booleanSchema, err |-> NilErr]
    [] OTHER             -> [schema |-> NilSchema, err |-> Err("unknown sqlite type", "", t)]

\* the switch of sqliteTypeToAvroSchema; the default case's error carries t
avroPrimitive(t) ==
  CASE t = SqliteNull    -> [schema |-> nullSchema, err |-> NilErr]
    [] t = SqliteInteger -> [schema |-> longSchema, err |-> NilErr]
    [] t = SqliteReal    -> [schema |-> doubleSchema, err |-> NilErr]
    [] t = SqliteText    -> [schema |-> stringSchema, err |-> NilErr]
    [] t = SqliteBlob    -> [schema |-> bytesSchema, err |-> NilErr]
    [] t = SqliteBoolean -> [schema |-> booleanSchema, err |-> NilErr]
    [] OTHER             -> [schema |-> NilSchema, err |-> Err("unknown sqlite type", "", t)]

\* mutant: the union lists the mapped primitive before null
sqliteTypeToAvroSchema_NullLast(t, nullable) ==
  LET p == avroPrimitive(t) IN
  IF p.err # NilErr THEN p
  ELSE IF nullable THEN NewUnionSchema(<<p.schema, nullSchema>>)
  ELSE p

sqliteTypeToAvroSchema(t, nullable) ==
  LET p == avroPrimitive(t) IN
  IF p.err # NilErr THEN p
  ELSE IF nullable THEN NewUnionSchema(<<nullSchema, p.schema>>)
  ELSE p

(***************************************************************************)
(* strconv on catalog text.  A text is a sequence of one-character         *)
(* strings.  The texts of the model use only the characters of Digits,     *)
(* the sign and the point, letters a..c and the quote, and have at most    *)
(* three characters, so neither a range error nor the exponent, hex, inf   *)
(* or nan forms of ParseFloat can arise: what is left of both parsers is   *)
(* the decimal grammar below.  A syntax error returns the zero value.      *)
(***************************************************************************)
Digits == {"0", "1", "2", "3", "4", "5", "6", "7", "8", "9"}

DigitVal(c) ==
  CASE c = "0" -> 0 [] c = "1" -> 1 [] c = "2" -> 2 [] c = "3" -> 3 [] c = "4" -> 4
    [] c = "5" -> 5 [] c = "6" -> 6 [] c = "7" -> 7 [] c = "8" -> 8 [] c = "9" -> 9

RECURSIVE DecVal(_)
DecVal(s) ==
  IF s = <<>> THEN 0
  ELSE DecVal(SubSeq(s, 1, Len(s) - 1)) * 10 + DigitVal(s[Len(s)])

AllDigits(s) == \A i \in 1..Len(s) : s[i] \in Digits

Unsigned(s) == IF s # <<>> /\ s[1] \in {"+", "-"} THEN Tail(s) ELSE s

IsNegative(s) == s # <<>> /\ s[1] = "-"

\* strconv.ParseInt(s, 10, bitSize)
ParseInt(s) ==
  LET body == Unsigned(s) IN
  IF body = <<>> \/ ~AllDigits(body)
  THEN [n |-> 0, ok |-> FALSE]
  ELSE [n |-> IF IsNegative(s) THEN 0 - DecVal(body) ELSE DecVal(body), ok |-> TRUE]

RECURSIVE Normalise(_, _)
Normalise(n, e) ==
  IF n = 0 THEN [n |-> 0, e |-> 0]
  ELSE IF e < 0 /\ n % 10 = 0 THEN Normalise(n \div 10, e + 1)
  ELSE [n |-> n, e |-> e]

\* strconv.ParseFloat(s, 64): [sign] digits [. digits], at least one digit
ParseFloat(s) ==
  LET body   == Unsigned(s)
      points == {i \in 1..Len(body) : body[i] = "."}
      digits == SelectSeq(body, LAMBDA c : c # ".")
      frac   == IF points = {} THEN 0 ELSE Len(body) - (CHOOSE i \in points : TRUE)
      m      == DecVal(digits)
      v      == Normalise(IF IsNegative(s) THEN 0 - m ELSE m, 0 - frac)
  IN
  IF Cardinality(points) > 1 \/ digits = <<>> \/ ~AllDigits(digits)
  THEN [n |-> 0, e |-> 0, ok |-> FALSE]
  ELSE [n |-> v.n, e |-> v.e, ok |-> TRUE]

\* toDefaultValueType: the Go value of a catalog default text and whether
\* the conversion returned an error
toDefaultValueType(dataType, s) ==
  CASE dataType = SqliteNull    -> [val |-> GoNil, ok |-> TRUE]
    [] dataType = SqliteInteger -> [val |-> GoInt64(ParseInt(s).n), ok |-> ParseInt(s).ok]
    [] dataType = SqliteReal    -> [val |-> GoFloat64(ParseFloat(s).n, ParseFloat(s).e),
                                    ok |-> ParseFloat(s).ok]
    [] dataType = SqliteText    -> [val |-> GoString(s), ok |-> TRUE]
    [] dataType = SqliteBlob    -> [val |-> GoBytes(s), ok |-> TRUE]
    [] dataType = SqliteBoolean -> IF ~ParseInt(s).ok
                                   THEN [val |-> GoBool(FALSE), ok |-> FALSE]
                                   ELSE [val |-> GoBool(ParseInt(s).n # 0), ok |-> TRUE]
    [] OTHER                    -> [val |-> GoNil, ok |-> FALSE]

(***************************************************************************)
(* SchemaField = [Name, Type, Nullable, Default] and its AvroDefault.      *)
(***************************************************************************)
SchemaField(name, type, nullable, default) ==
  [Name |-> name, Type |-> type, Nullable |-> nullable, Default |-> default]

\* mutant: a wrongly typed text default is passed on instead of ""
avroDefaultSwitch_TextUnchecked(s) ==
  CASE s.Type = SqliteNull    -> GoNil
    [] s.Type = SqliteInteger -> IF s.Default.k # "int64" THEN SqliteIntegerDefault ELSE s.Default
    [] s.Type = SqliteReal    -> IF s.Default.k # "float64" THEN SqliteRealDefault ELSE s.Default
    [] s.Type = SqliteText    -> s.Default
    [] s.Type = SqliteBlob    -> IF s.Default.k # "bytes" THEN SqliteBlobDefault ELSE s.Default
    [] s.Type = SqliteBoolean -> IF s.Default.k # "int" THEN GoBool(FALSE)
                                 ELSE GoBool(s.Default.n # 0)
    [] OTHER                  -> s.Default

\* the switch of AvroDefault: a type assertion per storage type
avroDefaultSwitch(s) ==
  CASE s.Type = SqliteNull    -> GoNil
    [] s.Type = SqliteInteger -> IF s.Default.k # "int64" THEN SqliteIntegerDefault ELSE s.Default
    [] s.Type = SqliteReal    -> IF s.Default.k # "float64" THEN SqliteRealDefault ELSE s.Default
    [] s.Type = SqliteText    -> IF s.Default.k # "string" THEN SqliteTextDefault ELSE s.Default
    [] s.Type = SqliteBlob    -> IF s.Default.k # "bytes" THEN SqliteBlobDefault ELSE s.Default
    [] s.Type = SqliteBoolean -> IF s.Default.k # "int" THEN GoBool(FALSE)
                                 ELSE GoBool(s.Default.n # 0)
    [] OTHER                  -> s.Default

\* mutant: nullability suppresses the default only when none was given
AvroDefault_NullableKeepsDefault(s) ==
  IF s.Nullable /\ s.Default \in {GoNil, NoDefault} THEN NoDefault ELSE avroDefaultSwitch(s)

AvroDefault(s) ==
  IF s.Nullable THEN NoDefault ELSE avroDefaultSwitch(s)

(***************************************************************************)
(* avro.NewField and avro.NewRecordSchema (hamba/avro v1.8.0).             *)
(***************************************************************************)
\* the names of the model that fail ^[A-Za-z_][A-Za-z0-9_]*$
InvalidNames == {"", "my col"}

validateName(name) == name \notin InvalidNames

RECURSIVE Pow10(_)
Pow10(k) == IF k = 0 THEN 1 ELSE 10 * Pow10(k - 1)

\* int64(f) of a float64 n * 10^e, e <= 0: truncation toward zero
TruncFloat(v) ==
  IF v.n >= 0 THEN v.n \div Pow10(0 - v.e) ELSE 0 - ((0 - v.n) \div Pow10(0 - v.e))

\* isValidDefault on a primitive type name: the default as stored and whether
\* it is accepted
isValidDefaultPrim(type, def) ==
  CASE type = "null"              -> [def |-> GoNil, ok |-> def = GoNil]
    [] type \in {"string", "bytes"} -> [def |-> def, ok |-> def.k = "string"]
    [] type = "boolean"           -> [def |-> def, ok |-> def.k = "bool"]
    [] type = "long"              -> IF def.k = "float64"
                                     THEN [def |-> GoInt64(TruncFloat(def)), ok |-> TRUE]
                                     ELSE [def |-> def, ok |-> def.k = "int64"]
    [] type = "double"            -> [def |-> def, ok |-> def.k = "float64"]
    [] OTHER                      -> [def |-> def, ok |-> FALSE]

\* a union's default is checked against its first branch
isValidDefault(typ, def) ==
  isValidDefaultPrim(IF typ.type = "union" THEN typ.branches[1] ELSE typ.type, def)

NilField == [name |-> "", typ |-> NilSchema, hasDef |-> FALSE, def |-> GoNil]

NewField(name, typ, def) ==
  IF ~validateName(name)
  THEN [field |-> NilField, err |-> Err("avro: invalid name", "", name)]
  ELSE IF def = NoDefault
  THEN [field |-> [name |-> name, typ |-> typ, hasDef |-> FALSE, def |-> GoNil], err |-> NilErr]
  ELSE IF ~isValidDefault(typ, def).ok
  THEN [field |-> NilField, err |-> Err("avro: invalid default", "", name)]
  ELSE [field |-> [name |-> name, typ |-> typ, hasDef |-> TRUE,
                   def |-> isValidDefault(typ, def).def],
        err |-> NilErr]

NilRecord == [name |-> "", namespace |-> "", fields |-> <<>>]

NewRecordSchema(name, space, fields) ==
  IF ~validateName(name)
  THEN [record |-> NilRecord, err |-> Err("avro: invalid name", "", name)]
  ELSE [record |-> [name |-> name, namespace |-> space, fields |-> fields], err |-> NilErr]

(***************************************************************************)
(* SqliteSchema = [Table, Fields, Sql] and ToAvro.  The result of ToAvro   *)
(* is the record schema and the error, with visited, the number of fields  *)
(* the loop has started to convert when it returns.                        *)
(***************************************************************************)
SqliteSchema(table, fields, sql) == [Table |-> table, Fields |-> fields, Sql |-> sql]

RECURSIVE toAvroLoop_SkipUnknown(_, _, _)
toAvroLoop_SkipUnknown(s, i, fields) ==
  IF i > Len(s.Fields)
  THEN LET r == NewRecordSchema(s.Table, Namespace, fields) IN
       IF r.err # NilErr
       THEN [record |-> NilRecord, visited |-> Len(s.Fields),
             err |-> Wrap("failed to create avro record schema", r.err)]
       ELSE [record |-> r.record, visited |-> Len(s.Fields), err |-> NilErr]
  ELSE LET field == s.Fields[i]
           m     == sqliteTypeToAvroSchema(field.Type, field.Nullable)
           f     == NewField(field.Name, m.schema, AvroDefault(field))
       IN
       IF m.err # NilErr
       THEN toAvroLoop_SkipUnknown(s, i + 1, fields)
       ELSE IF f.err # NilErr
       THEN [record |-> NilRecord, visited |-> i,
             err |-> Wrap("failed to create avro field", f.err)]
       ELSE toAvroLoop_SkipUnknown(s, i + 1, Append(fields, f.field))

\* mutant: a field whose type cannot be mapped is left out instead of
\* aborting the translation
ToAvro_SkipUnknown(s) == toAvroLoop_SkipUnknown(s, 1, <<>>)

RECURSIVE toAvroLoop_RawDefault(_, _, _)
toAvroLoop_RawDefault(s, i, fields) ==
  IF i > Len(s.Fields)
  THEN LET r == NewRecordSchema(s.Table, Namespace, fields) IN
       IF r.err # NilErr
       THEN [record |-> NilRecord, visited |-> Len(s.Fields),
             err |-> Wrap("failed to create avro record schema", r.err)]
       ELSE [record |-> r.record, visited |-> Len(s.Fields), err |-> NilErr]
  ELSE LET field == s.Fields[i]
           m     == sqliteTypeToAvroSchema(field.Type, field.Nullable)
           f     == NewField(field.Name, m.schema, field.Default)
       IN
       IF m.err # NilErr
       THEN [record |-> NilRecord, visited |-> i,
             err |-> Wrap("failed to convert sqlite type to avro schema", m.err)]
       ELSE IF f.err # NilErr
       THEN [record |-> NilRecord, visited |-> i,
             err |-> Wrap("failed to create avro field", f.err)]
       ELSE toAvroLoop_RawDefault(s, i + 1, Append(fields, f.field))

\* mutant: the sub-field carries the field's Default, not its AvroDefault
ToAvro_RawDefault(s) == toAvroLoop_RawDefault(s, 1, <<>>)

\* the loop of ToAvro from field i on, fields being the sub-fields built so
\* far, then the record construction
RECURSIVE toAvroLoop(_, _, _)
toAvroLoop(s, i, fields) ==
  IF i > Len(s.Fields)
  THEN LET r == NewRecordSchema(s.Table, Namespace, fields) IN
       IF r.err # NilErr
       THEN [record |-> NilRecord, visited |-> Len(s.Fields),
             err |-> Wrap("failed to create avro record schema", r.err)]
       ELSE [record |-> r.record, visited |-> Len(s.Fields), err |-> NilErr]
  ELSE LET field == s.Fields[i]
           m     == sqliteTypeToAvroSchema(field.Type, field.Nullable)
           f     == NewField(field.Name, m.schema, AvroDefault(field))
       IN
       IF m.err # NilErr
       THEN [record |-> NilRecord, visited |-> i,
             err |-> Wrap("failed to convert sqlite type to avro schema", m.err)]
       ELSE IF f.err # NilErr
       THEN [record |-> NilRecord, visited |-> i,
             err |-> Wrap("failed to create avro field", f.err)]
       ELSE toAvroLoop(s, i + 1, Append(fields, f.field))

ToAvro(s) == toAvroLoop(s, 1, <<>>)

(***************************************************************************)
(* The catalog of table "foo": one row of pragma_table_info per column,    *)
(* [name, type, notnull, dflt] with dflt the sql.NullString of dflt_value; *)
(* <<>> when the database has no such table.  ReadSchema of any other      *)
(* table name finds no rows.                                               *)
(***************************************************************************)
Column(name, type, notnull, dflt) ==
  [name |-> name, type |-> type, notnull |-> notnull, dflt |-> dflt]

NullString(valid, s) == [Valid |-> valid, String |-> s]

\* strings.ToLower on the declared types of the model
ToLower(t) ==
  CASE t = "INTEGER" -> "integer" [] t = "REAL" -> "real" [] t = "TEXT" -> "text"
    [] t = "BLOB" -> "blob" [] t = "BOOLEAN" -> "boolean" [] t = "NULL" -> "null"
    [] t = "VARCHAR" -> "varchar" [] OTHER -> t

\* the creation statement sqlite_master holds for the table, as its words;
\* <<>> is the empty string, left when the query finds no row
createSql(cols, tableName) == IF cols = <<>> THEN <<>> ELSE <<"CREATE TABLE", tableName>>

\* mutant: a column is nullable when its notnull flag is set
columnToField_NotNullIsNullable(col) ==
  SchemaField(col.name, ToLower(col.type), col.notnull = 1,
              IF col.dflt.Valid
              THEN toDefaultValueType(ToLower(col.type), col.dflt.String).val
              ELSE NoDefault)

\* the row loop of ReadSchema: the error of toDefaultValueType is dropped
columnToField(col) ==
  SchemaField(col.name, ToLower(col.type), col.notnull = 0,
              IF col.dflt.Valid
              THEN toDefaultValueType(ToLower(col.type), col.dflt.String).val
              ELSE NoDefault)

ReadSchema(cols, tableName) ==
  SqliteSchema(tableName, [i \in 1..Len(cols) |-> columnToField(cols[i])],
               createSql(cols, tableName))

(***************************************************************************)
(* Inputs.                                                                 *)
(***************************************************************************)
TableNames == {"foo", "meats"}

FieldNames == {"id", "name"}

StorageTypes ==
  {SqliteNull, SqliteInteger, SqliteReal, SqliteText, SqliteBlob, SqliteBoolean, "varchar"}

DeclaredTypes == {"INTEGER", "integer", "REAL", "TEXT", "BLOB", "BOOLEAN", "NULL", "VARCHAR"}

DefaultTexts ==
  {<<"a", "b", "c">>, <<"4">>, <<"0">>, <<"1">>, <<"-", "7">>, <<"1", ".", "5">>}

ColumnDefaults == {NullString(FALSE, <<>>)} \cup {NullString(TRUE, s) : s \in DefaultTexts}

\* what a column declares besides its name
ColumnAttrs == DeclaredTypes \X {0, 1} \X ColumnDefaults

\* the column-name lists of a table: names are unique within a table
ColumnNames(k) == {ns \in [1..k -> FieldNames] : \A i, j \in 1..k : ns[i] = ns[j] => i = j}

MakeCatalog(ns, as) ==
  [i \in 1..Len(ns) |-> Column(ns[i], as[i][1], as[i][2], as[i][3])]

\* the defaults a caller gives the fields of a schema it writes by hand: each
\* is well typed for one storage type and wrongly typed for the others
LiteralDefaults == {GoInt64(0), GoString(<<"m", "b">>)}

LiteralFields ==
  {SchemaField(n, t, b, d) : n \in FieldNames, t \in StorageTypes, b \in BOOLEAN,
                             d \in LiteralDefaults}

\* the defaults of a single field under test: every kind of Go value,
\* well typed or not for the field's type
UnitDefaults ==
  {GoNil, NoDefault, GoInt64(4), GoInt64(0), GoInt(4), GoInt(0), GoFloat64(15, 0 - 1),
   GoString(<<"m", "b">>), GoString(<<>>), GoBytes(<<"e", "d">>), GoBool(TRUE),
   GoBool(FALSE), GoIntSlice}

UnitFields ==
  {SchemaField(n, t, b, d) : n \in FieldNames \cup {"my col"}, t \in StorageTypes,
                             b \in BOOLEAN, d \in UnitDefaults}

(***************************************************************************)
(* Rows and the Avro binary stream.  A row is a map from column names to   *)
(* Go values, as LoadData builds it.  The stream is a sequence of tokens,  *)
(* one per encoded value: the binary encoding is positional, it holds no   *)
(* field names and no record boundaries; a union value is the index of its *)
(* branch followed by the value of the branch, a null is no bytes at all.  *)
(***************************************************************************)
\* most rows of the exported table, and so most records of a stream
MaxRecords == 2

Token(t, n, e, s) == [t |-> t, n |-> n, e |-> e, s |-> s]

\* bytes that are the encoding of no value
BadToken == Token("bad", 0, 0, <<>>)

\* io.EOF
EOF == Err("EOF", "", "")

\* the Go kind the encoder takes for a primitive schema type, which is the
\* kind the decoder makes for it when it decodes into an `any`
KindOf(type) ==
  CASE type = "long" -> "int64" [] type = "double" -> "float64"
    [] type = "string" -> "string" [] type = "bytes" -> "bytes"
    [] type = "boolean" -> "bool" [] type = "null" -> "nil" [] OTHER -> ""

encodePrim(type, v) ==
  IF v.k # KindOf(type) THEN [ok |-> FALSE, toks |-> <<>>]
  ELSE IF type = "null" THEN [ok |-> TRUE, toks |-> <<>>]
  ELSE [ok |-> TRUE, toks |-> <<Token(type, v.n, v.e, v.s)>>]

\* a union value is written under the branch whose type takes its Go kind
encodeValue(typ, v) ==
  IF typ.type # "union" THEN encodePrim(typ.type, v)
  ELSE LET hits == {i \in 1..Len(typ.branches) : KindOf(typ.branches[i]) = v.k} IN
       IF hits = {} THEN [ok |-> FALSE, toks |-> <<>>]
       ELSE LET i == CHOOSE h \in hits : TRUE IN
            [ok |-> TRUE,
             toks |-> <<Token("index", i - 1, 0, <<>>)>> \o encodePrim(typ.branches[i], v).toks]

\* Encoder.Encode of one row map under a record schema: the fields in schema
\* order, each looked up in the map by its name
RECURSIVE encodeRow(_, _, _)
encodeRow(fields, row, i) ==
  IF i > Len(fields) THEN [ok |-> TRUE, toks |-> <<>>]
  ELSE IF fields[i].name \notin DOMAIN row THEN [ok |-> FALSE, toks |-> <<>>]
  ELSE LET v    == encodeValue(fields[i].typ, row[fields[i].name])
           rest == encodeRow(fields, row, i + 1)
       IN [ok |-> v.ok /\ rest.ok, toks |-> v.toks \o rest.toks]

\* ReadData: the rows of the table encoded one after the other into one
\* buffer; the first row that does not encode ends it with nil bytes
RECURSIVE encodeLoop(_, _, _, _)
encodeLoop(fields, rows, i, w) ==
  IF i > Len(rows) THEN [bytes |-> w, err |-> NilErr]
  ELSE LET e == encodeRow(fields, rows[i], 1) IN
       IF ~e.ok THEN [bytes |-> <<>>, err |-> Err("avro: encode", "", "")]
       ELSE encodeLoop(fields, rows, i + 1, w \o e.toks)

ReadData(rows, record) == encodeLoop(record.fields, rows, 1, <<>>)

decodePrim(type, s, pos) ==
  IF type = "null" THEN [ok |-> TRUE, val |-> GoNil, pos |-> pos]
  ELSE IF pos > Len(s) \/ s[pos].t # type THEN [ok |-> FALSE, val |-> GoNil, pos |-> pos]
  ELSE [ok |-> TRUE, val |-> GoVal(KindOf(type), s[pos].n, s[pos].e, s[pos].s),
        pos |-> pos + 1]

decodeValue(typ, s, pos) ==
  IF typ.type # "union" THEN decodePrim(typ.type, s, pos)
  ELSE IF pos > Len(s) \/ s[pos].t # "index" \/ s[pos].n + 1 > Len(typ.branches)
  THEN [ok |-> FALSE, val |-> GoNil, pos |-> pos]
  ELSE decodePrim(typ.branches[s[pos].n + 1], s, pos + 1)

\* st[key] = val on a Go map
MapSet(st, key, val) == [k \in DOMAIN st \cup {key} |-> IF k = key THEN val ELSE st[k]]

\* the field loop of the library's record decoder on a map target: every
\* field of the schema is stored in the map under its name; once a value has
\* failed to decode, the fields from there on are stored as nil
RECURSIVE decodeFields(_, _, _, _, _, _)
decodeFields(fields, s, pos, st, i, ok) ==
  IF i > Len(fields) THEN [ok |-> ok, st |-> st, pos |-> pos]
  ELSE LET d == IF ok THEN decodeValue(fields[i].typ, s, pos)
                ELSE [ok |-> FALSE, val |-> GoNil, pos |-> pos]
       IN decodeFields(fields, s, d.pos, MapSet(st, fields[i].name, d.val), i + 1, d.ok)

\* decoder.Decode(&st) at position pos of the stream: io.EOF when no byte is
\* left, else one record decoded INTO the map st points to (a nil map is
\* first replaced by a new one, a map that exists is written in place)
Decode(fields, s, pos, st) ==
  IF pos > Len(s) THEN [err |-> EOF, st |-> st, pos |-> pos]
  ELSE LET d == decodeFields(fields, s, pos, st, 1, TRUE) IN
       [err |-> IF d.ok THEN NilErr ELSE Err("avro: decode", "", ""), st |-> d.st,
        pos |-> d.pos]

(***************************************************************************)
(* ReadAvro.  out holds references to maps, and the only map there is is   *)
(* the one the variable st points to: `out = append(out, st)` appends the  *)
(* reference, and the next Decode(&st) writes into that same map.  The     *)
(* rows the caller gets are what the references show when ReadAvro         *)
(* returns.  The slice out is made empty and non-nil, isNil says so.       *)
(***************************************************************************)
\* mutant: end-of-stream is returned like any other error of Decode
RECURSIVE readAvroLoop_EOFIsFault(_, _, _, _, _)
readAvroLoop_EOFIsFault(fields, s, pos, st, n) ==
  LET d == Decode(fields, s, pos, st)
      Returned(err) == [isNil |-> FALSE, rows |-> [i \in 1..n |-> d.st], err |-> err,
                        exit |-> "return"]
  IN
  IF d.err # NilErr THEN Returned(d.err)
  ELSE IF d.pos = pos THEN [Returned(NilErr) EXCEPT !.rows = <<>>, !.exit = "loop"]
  ELSE readAvroLoop_EOFIsFault(fields, s, d.pos, d.st, n + 1)

\* the loop of ReadAvro; n is the number of references appended to out.  A
\* record schema without fields decodes from no byte at all: on a stream
\* that is not empty the loop never reaches the end of the stream and the
\* call does not return (exit is "loop")
RECURSIVE readAvroLoop(_, _, _, _, _)
readAvroLoop(fields, s, pos, st, n) ==
  LET d == Decode(fields, s, pos, st)
      Returned(err) == [isNil |-> FALSE, rows |-> [i \in 1..n |-> d.st], err |-> err,
                        exit |-> "return"]
  IN
  IF d.err = EOF THEN Returned(NilErr)
  ELSE IF d.err # NilErr THEN Returned(d.err)
  ELSE IF d.pos = pos THEN [Returned(NilErr) EXCEPT !.rows = <<>>, !.exit = "loop"]
  ELSE readAvroLoop(fields, s, d.pos, d.st, n + 1)

\* avro.NewDecoder parses schema.String(), which it does without error for a
\* record schema ToAvro has built; st starts as the nil map
ReadAvro(record, r) == readAvroLoop(record.fields, r, 1, <<>>, 0)

(***************************************************************************)
(* The destination database: for each table name whether the table exists, *)
(* its columns and its rows in insertion order.  A statement is the        *)
(* sequence of its words.  The creation statement of the model does not    *)
(* spell out the column list: the columns it declares are those of the     *)
(* table it was read from, the catalog.                                    *)
(***************************************************************************)
Table(exists, cols, rows) == [exists |-> exists, cols |-> cols, rows |-> rows]

NoTable == Table(FALSE, <<>>, <<>>)

EmptyStore == [t \in TableNames |-> NoTable]

\* a fault of the store: the operation that fails and, for the inserts,
\* which one
Fault(op, at) == [op |-> op, at |-> at]

NoFault == Fault("none", 0)

StoreErr(op) == Err("sqlite3", "", op)

Declares(sql) == IF sql = <<>> THEN <<>> ELSE [i \in 1..Len(catalog) |-> catalog[i].name]

tableExists(db, table) == table \in DOMAIN db /\ db[table].exists

\* mutant: DELETE FROM leaves the rows of the table where they are
Exec_DeleteKeepsRows(db, sql) ==
  IF sql = <<>> THEN [db |-> db, err |-> NilErr]
  ELSE IF sql[1] = "CREATE TABLE"
  THEN IF sql[2] \notin DOMAIN db \/ db[sql[2]].exists
       THEN [db |-> db, err |-> StoreErr("Exec")]
       ELSE [db |-> [db EXCEPT ![sql[2]] = Table(TRUE, Declares(sql), <<>>)], err |-> NilErr]
  ELSE IF sql[1] = "DELETE FROM"
  THEN IF ~tableExists(db, sql[2])
       THEN [db |-> db, err |-> StoreErr("Exec")]
       ELSE [db |-> db, err |-> NilErr]
  ELSE [db |-> db, err |-> StoreErr("Exec")]

\* db.Exec of a statement without parameters: the empty statement does
\* nothing, CREATE TABLE fails on a table that exists, DELETE FROM on one
\* that does not
Exec(db, sql) ==
  IF sql = <<>> THEN [db |-> db, err |-> NilErr]
  ELSE IF sql[1] = "CREATE TABLE"
  THEN IF sql[2] \notin DOMAIN db \/ db[sql[2]].exists
       THEN [db |-> db, err |-> StoreErr("Exec")]
       ELSE [db |-> [db EXCEPT ![sql[2]] = Table(TRUE, Declares(sql), <<>>)], err |-> NilErr]
  ELSE IF sql[1] = "DELETE FROM"
  THEN IF ~tableExists(db, sql[2])
       THEN [db |-> db, err |-> StoreErr("Exec")]
       ELSE [db |-> [db EXCEPT ![sql[2]].rows = <<>>], err |-> NilErr]
  ELSE [db |-> db, err |-> StoreErr("Exec")]

Range(f) == {f[i] : i \in DOMAIN f}

\* db.Prepare of INSERT INTO table (names) VALUES (?, ...): the table and the
\* named columns must exist
Prepare(db, table, names) ==
  tableExists(db, table) /\ Range(names) \subseteq Range(db[table].cols)

\* stmt.Exec(args...): the i-th argument goes to the i-th named column, a
\* column that is not named gets NULL
Insert(db, table, names, args) ==
  LET row == [c \in Range(db[table].cols) |->
                IF \E i \in 1..Len(names) : names[i] = c
                THEN args[CHOOSE i \in 1..Len(names) : names[i] = c]
                ELSE GoNil]
  IN [db EXCEPT ![table].rows = Append(@, row)]

(***************************************************************************)
(* LoadAvro(db, schema, r) under a fault of the store.  Its result is the  *)
(* count and the error it returns, how it ends (exit is "return", or       *)
(* "panic" when strings.Repeat gets the count -1), the database it leaves  *)
(* and log, the store and decoder operations it has made in order, each    *)
(* with its statement, its arguments and whether it succeeded.             *)
(***************************************************************************)
Ev(op, sql, args, ok) == [op |-> op, sql |-> sql, args |-> args, ok |-> ok]

Loaded(count, err, exit, db, log) ==
  [count |-> count, err |-> err, exit |-> exit, db |-> db, log |-> log]

\* mutant: the rows of a table that exists are kept
firstStatement_NoDelete(s, exists) == IF ~exists THEN s.Sql ELSE <<>>

\* mutant: the creation statement is executed whether the table exists or not
firstStatement_AlwaysCreate(s, exists) == s.Sql

\* the statement executed once the existence of the table is known
firstStatement(s, exists) == IF ~exists THEN s.Sql ELSE <<"DELETE FROM", s.Table>>

insertSql(table, names) == <<"INSERT INTO", table>> \o names

\* st[f] for each field name; a key the map does not hold reads as nil
insertArgs(names, st) ==
  [i \in 1..Len(names) |-> IF names[i] \in DOMAIN st THEN st[names[i]] ELSE GoNil]

\* mutant: a failed insert is skipped and the loop goes on
RECURSIVE loadLoop_SkipFailed(_, _, _, _, _, _, _, _, _, _)
loadLoop_SkipFailed(fields, table, names, r, pos, st, count, db, log, fault) ==
  LET d == Decode(fields, r, pos, st) IN
  IF d.err = EOF
  THEN Loaded(count, NilErr, "return", db,
              log \o <<Ev("Decode", <<>>, <<>>, FALSE), Ev("Close", <<>>, <<>>, TRUE)>>)
  ELSE IF d.err # NilErr
  THEN Loaded(0, d.err, "return", db,
              log \o <<Ev("Decode", <<>>, <<>>, FALSE), Ev("Close", <<>>, <<>>, TRUE)>>)
  ELSE LET args == insertArgs(names, d.st)
           dec  == Ev("Decode", <<>>, <<>>, TRUE)
           ok   == fault # Fault("Insert", Len(SelectSeq(log, LAMBDA e : e.op = "Insert")) + 1)
       IN loadLoop_SkipFailed(fields, table, names, r, d.pos, d.st,
                              IF ok THEN count + 1 ELSE count,
                              IF ok THEN Insert(db, table, names, args) ELSE db,
                              log \o <<dec, Ev("Insert", insertSql(table, names), args, ok)>>,
                              fault)

\* mutant: a decode fault takes back the rows the call has inserted
RECURSIVE loadLoop_UndoOnFault(_, _, _, _, _, _, _, _, _, _)
loadLoop_UndoOnFault(fields, table, names, r, pos, st, count, db, log, fault) ==
  LET d == Decode(fields, r, pos, st) IN
  IF d.err = EOF
  THEN Loaded(count, NilErr, "return", db,
              log \o <<Ev("Decode", <<>>, <<>>, FALSE), Ev("Close", <<>>, <<>>, TRUE)>>)
  ELSE IF d.err # NilErr
  THEN Loaded(0, d.err, "return", [db EXCEPT ![table].rows = <<>>],
              log \o <<Ev("Decode", <<>>, <<>>, FALSE), Ev("Close", <<>>, <<>>, TRUE)>>)
  ELSE LET args == insertArgs(names, d.st)
           dec  == Ev("Decode", <<>>, <<>>, TRUE)
       IN IF fault = Fault("Insert", count + 1)
          THEN Loaded(count, StoreErr("Insert"), "return", db,
                      log \o <<dec, Ev("Insert", insertSql(table, names), args, FALSE),
                               Ev("Close", <<>>, <<>>, TRUE)>>)
          ELSE loadLoop_UndoOnFault(fields, table, names, r, d.pos, d.st, count + 1,
                                    Insert(db, table, names, args),
                                    log \o <<dec, Ev("Insert", insertSql(table, names), args, TRUE)>>,
                                    fault)

\* the decode-and-insert loop: count inserts have succeeded, pos is the
\* position of the decoder in r, st the map every record is decoded into
RECURSIVE loadLoop(_, _, _, _, _, _, _, _, _, _)
loadLoop(fields, table, names, r, pos, st, count, db, log, fault) ==
  LET d == Decode(fields, r, pos, st) IN
  IF d.err = EOF
  THEN Loaded(count, NilErr, "return", db,
              log \o <<Ev("Decode", <<>>, <<>>, FALSE), Ev("Close", <<>>, <<>>, TRUE)>>)
  ELSE IF d.err # NilErr
  THEN Loaded(0, d.err, "return", db,
              log \o <<Ev("Decode", <<>>, <<>>, FALSE), Ev("Close", <<>>, <<>>, TRUE)>>)
  ELSE LET args == insertArgs(names, d.st)
           dec  == Ev("Decode", <<>>, <<>>, TRUE)
       IN IF fault = Fault("Insert", count + 1)
          THEN Loaded(count, StoreErr("Insert"), "return", db,
                      log \o <<dec, Ev("Insert", insertSql(table, names), args, FALSE),
                               Ev("Close", <<>>, <<>>, TRUE)>>)
          ELSE loadLoop(fields, table, names, r, d.pos, d.st, count + 1,
                        Insert(db, table, names, args),
                        log \o <<dec, Ev("Insert", insertSql(table, names), args, TRUE)>>,
                        fault)

\* mutant: the schema is translated after the table is created or emptied
LoadAvro_TranslateLate(db, s, r, fault) ==
  LET a      == ToAvro(s)
      exists == tableExists(db, s.Table)
      first  == firstStatement(s, exists)
      x      == Exec(db, first)
      names  == [i \in 1..Len(s.Fields) |-> s.Fields[i].Name]
      q      == Ev("Query", <<"sqlite_master", s.Table>>, <<>>, TRUE)
      e      == Ev("Exec", first, <<>>, TRUE)
      p      == Ev("Prepare", insertSql(s.Table, names), <<>>, TRUE)
  IN
  IF fault.op = "Query"
  THEN Loaded(0, StoreErr("Query"), "return", db, <<[q EXCEPT !.ok = FALSE]>>)
  ELSE IF fault.op = "Exec" \/ x.err # NilErr
  THEN Loaded(0, StoreErr("Exec"), "return", db, <<q, [e EXCEPT !.ok = FALSE]>>)
  ELSE IF a.err # NilErr THEN Loaded(0, a.err, "return", x.db, <<q, e>>)
  ELSE IF Len(s.Fields) = 0
  THEN Loaded(0, NilErr, "panic", x.db, <<q, e>>)
  ELSE IF fault.op = "Prepare" \/ ~Prepare(x.db, s.Table, names)
  THEN Loaded(0, StoreErr("Prepare"), "return", x.db, <<q, e, [p EXCEPT !.ok = FALSE]>>)
  ELSE loadLoop(a.record.fields, s.Table, names, r, 1, <<>>, 0, x.db, <<q, e, p>>, fault)

LoadAvro(db, s, r, fault) ==
  LET a      == ToAvro(s)
      exists == tableExists(db, s.Table)
      first  == firstStatement(s, exists)
      x      == Exec(db, first)
      names  == [i \in 1..Len(s.Fields) |-> s.Fields[i].Name]
      q      == Ev("Query", <<"sqlite_master", s.Table>>, <<>>, TRUE)
      e      == Ev("Exec", first, <<>>, TRUE)
      p      == Ev("Prepare", insertSql(s.Table, names), <<>>, TRUE)
  IN
  IF a.err # NilErr THEN Loaded(0, a.err, "return", db, <<>>)
  ELSE IF fault.op = "Query"
  THEN Loaded(0, StoreErr("Query"), "return", db, <<[q EXCEPT !.ok = FALSE]>>)
  ELSE IF fault.op = "Exec" \/ x.err # NilErr
  THEN Loaded(0, StoreErr("Exec"), "return", db, <<q, [e EXCEPT !.ok = FALSE]>>)
  ELSE IF Len(s.Fields) = 0
  THEN Loaded(0, NilErr, "panic", x.db, <<q, e>>)
  ELSE IF fault.op = "Prepare" \/ ~Prepare(x.db, s.Table, names)
  THEN Loaded(0, StoreErr("Prepare"), "return", x.db, <<q, e, [p EXCEPT !.ok = FALSE]>>)
  ELSE loadLoop(a.record.fields, s.Table, names, r, 1, <<>>, 0, x.db, <<q, e, p>>, fault)

(***************************************************************************)
(* The export.  The database exported is db = [master, cols, rows]: the    *)
(* table names sqlite_master lists, in its order, and the columns and the  *)
(* rows that each of these tables has.  An enhancer is nil or a pair of    *)
(* hooks; the hooks of the model either leave their argument alone or edit *)
(* it: Schema drops the last field of a schema of several fields, Row      *)
(* replaces every string of the row.  A fault names the step that fails    *)
(* and which of its occurrences during the call does; the steps Schema and *)
(* Row are the hooks, whose fault is the error the hook returns.  A file   *)
(* is [path, header, body, flushed, synced]; log is the sequence of steps  *)
(* made, in order, each with the table or the path it is about.            *)
(***************************************************************************)
SourceDb(master, cols, rows) == [master |-> master, cols |-> cols, rows |-> rows]

Enhancer(isNil, edits) == [isNil |-> isNil, edits |-> edits]

NilEnhancer == Enhancer(TRUE, FALSE)

noopEnhancer == Enhancer(FALSE, FALSE)

hookSchema(enh, s) ==
  IF enh.edits /\ Len(s.Fields) > 1
  THEN [s EXCEPT !.Fields = SubSeq(s.Fields, 1, Len(s.Fields) - 1)]
  ELSE s

hookRow(enh, row) ==
  IF enh.edits
  THEN [k \in DOMAIN row |-> IF row[k].k = "string" THEN GoString(<<"x">>) ELSE row[k]]
  ELSE row

File(path, header, body, flushed, synced) ==
  [path |-> path, header |-> header, body |-> body, flushed |-> flushed, synced |-> synced]

Count(log, op) == Len(SelectSeq(log, LAMBDA e : e.op = op))

\* the step op about to be made is the one the fault is about
Fires(fault, log, op) == fault.op = op /\ fault.at = Count(log, op) + 1

StepErr(op) == Err(op, "", "")

\* what a step of the export hands back: exit is "return", or "fatal" when
\* log.Fatal has ended the process
Done(err, exit, log, fs) == [err |-> err, exit |-> exit, log |-> log, fs |-> fs]

sqliteSpecialTables == {"sqlite_sequence"}

ListTables(db) == SelectSeq(db.master, LAMBDA t : t \notin sqliteSpecialTables)

\* the columns and the rows the queries on a table find
ColumnsOf(db, table) == IF table \in Range(db.master) THEN db.cols ELSE <<>>

LoadData(db, table) == IF table \in Range(db.master) THEN db.rows ELSE <<>>

\* mutant: a row is encoded as loaded, and handed to the hook afterwards
RECURSIVE ocfRows_EncodeFirst(_, _, _, _, _, _, _, _)
ocfRows_EncodeFirst(enh, fields, rows, i, buf, log, fault, fileName) ==
  IF i > Len(rows) THEN [err |-> NilErr, buf |-> buf, log |-> log]
  ELSE LET e         == encodeRow(fields, rows[i], 1)
           encFails  == ~e.ok \/ Fires(fault, log, "Encode")
           l1        == Append(log, Ev("Encode", fileName, <<i>>, ~encFails))
           hookFails == Fires(fault, l1, "Row")
           l2        == Append(l1, Ev("Row", fileName, <<i>>, ~hookFails))
       IN IF encFails THEN [err |-> StepErr("Encode"), buf |-> buf, log |-> l1]
          ELSE IF hookFails THEN [err |-> StepErr("Row"), buf |-> buf \o e.toks, log |-> l2]
          ELSE ocfRows_EncodeFirst(enh, fields, rows, i + 1, buf \o e.toks, l2, fault,
                                   fileName)

\* the row loop of TableToOCF from row i on; buf is what the encoder holds
\* of the rows encoded so far
RECURSIVE ocfRows(_, _, _, _, _, _, _, _)
ocfRows(enh, fields, rows, i, buf, log, fault, fileName) ==
  IF i > Len(rows) THEN [err |-> NilErr, buf |-> buf, log |-> log]
  ELSE LET hookFails == Fires(fault, log, "Row")
           l1        == Append(log, Ev("Row", fileName, <<i>>, ~hookFails))
           e         == encodeRow(fields, hookRow(enh, rows[i]), 1)
           encFails  == ~e.ok \/ Fires(fault, l1, "Encode")
           l2        == Append(l1, Ev("Encode", fileName, <<i>>, ~encFails))
       IN IF hookFails THEN [err |-> StepErr("Row"), buf |-> buf, log |-> l1]
          ELSE IF encFails THEN [err |-> StepErr("Encode"), buf |-> buf, log |-> l2]
          ELSE ocfRows(enh, fields, rows, i + 1, buf \o e.toks, l2, fault, fileName)

\* the one element of a set of one element
Only(S) == CHOOSE v \in S : TRUE

\* the deferred enc.Close() and f.Close(): what the encoder still holds is
\* flushed to the file, unless flushing is what has failed
closeOCF(fs, buf, flushFailed, log) ==
  Done(NilErr, "return", Append(log, Ev("Close", fs[Len(fs)].path, <<>>, TRUE)),
       IF flushFailed \/ fs[Len(fs)].flushed THEN fs ELSE [fs EXCEPT ![Len(fs)].body = buf])

\* TableToOCF once the rows are encoded: the flush of the encoder and the
\* sync of the file; loop is what the row loop has handed back, fs5 holds
\* the file with its header
finishOCF(fileName, loop, fs5, fault) ==
  LET flF  == Fires(fault, loop.log, "Flush")
      l7   == Append(loop.log, Ev("Flush", fileName, <<>>, ~flF))
      fs7  == [fs5 EXCEPT ![Len(fs5)].body = loop.buf, ![Len(fs5)].flushed = TRUE]
      syF  == Fires(fault, l7, "Sync")
      l8   == Append(l7, Ev("Sync", fileName, <<>>, ~syF))
      fs8  == [fs7 EXCEPT ![Len(fs7)].synced = TRUE]
      \* a return once the two Close are deferred
      Deferred(err, l, f, buf) == [closeOCF(f, buf, err = StepErr("Flush"), l) EXCEPT !.err = err]
  IN
  IF loop.err # NilErr THEN Deferred(loop.err, loop.log, fs5, loop.buf)
  ELSE IF flF THEN Deferred(StepErr("Flush"), l7, fs5, loop.buf)
  ELSE IF syF THEN Deferred(StepErr("Sync"), l8, fs7, <<>>)
  ELSE Deferred(NilErr, l8, fs8, loop.buf)

\* TableToOCF once the schema is translated to a: the file and its encoder
\* are created, the rows are loaded and encoded
writeOCF(db, table, fileName, enh, a, l3, fs, fault) ==
  LET crF  == Fires(fault, l3, "Create")
      l4   == Append(l3, Ev("Create", fileName, <<>>, ~crF))
      fs4  == Append(fs, File(fileName, NilRecord, <<>>, FALSE, FALSE))
      neF  == Fires(fault, l4, "NewEncoder")
      l5   == Append(l4, Ev("NewEncoder", fileName, <<>>, ~neF))
      fs5  == [fs4 EXCEPT ![Len(fs4)].header = a.record]
      ldF  == Fires(fault, l5, "LoadData")
      l6   == Append(l5, Ev("LoadData", <<table>>, <<>>, ~ldF))
  IN
  IF crF THEN Done(StepErr("Create"), "return", l4, fs)
  ELSE IF neF THEN Done(StepErr("NewEncoder"), "fatal", l5, fs4)
  ELSE IF ldF
  THEN [closeOCF(fs5, <<>>, FALSE, l6) EXCEPT !.err = StepErr("LoadData")]
  ELSE finishOCF(fileName,
                 ocfRows(enh, a.record.fields, LoadData(db, table), 1, <<>>, l6, fault,
                         fileName),
                 fs5, fault)

TableToOCF(db, table, fileName, enhancer, log, fs, fault) ==
  LET enh  == IF enhancer.isNil THEN noopEnhancer ELSE enhancer
      rsF  == Fires(fault, log, "ReadSchema")
      l1   == Append(log, Ev("ReadSchema", <<table>>, <<>>, ~rsF))
      shF  == Fires(fault, l1, "Schema")
      l2   == Append(l1, Ev("Schema", <<table>>, <<>>, ~shF))
      s    == hookSchema(enh, ReadSchema(ColumnsOf(db, table), table))
  IN
  IF rsF THEN Done(StepErr("ReadSchema"), "return", l1, fs)
  ELSE IF shF THEN Done(StepErr("Schema"), "return", l2, fs)
  ELSE Only({IF a.err # NilErr
             THEN Done(a.err, "return", Append(l2, Ev("ToAvro", <<table>>, <<>>, FALSE)), fs)
             ELSE writeOCF(db, table, fileName, enh, a,
                           Append(l2, Ev("ToAvro", <<table>>, <<>>, TRUE)), fs, fault) :
               a \in {ToAvro(s)}})

TableToJSON(db, table, fileName, enhancer, log, fs, fault) ==
  LET enh  == IF enhancer.isNil THEN noopEnhancer ELSE enhancer
      rsF  == Fires(fault, log, "ReadSchema")
      l1   == Append(log, Ev("ReadSchema", <<table>>, <<>>, ~rsF))
      shF  == Fires(fault, l1, "Schema")
      l2   == Append(l1, Ev("Schema", <<table>>, <<>>, ~shF))
      s    == hookSchema(enh, ReadSchema(ColumnsOf(db, table), table))
      l3   == Append(l2, Ev("Marshal", <<table>>, <<>>, TRUE))
      crF  == Fires(fault, l3, "Create")
      l4   == Append(l3, Ev("Create", fileName, <<>>, ~crF))
      fs4  == Append(fs, File(fileName, NilRecord, <<>>, FALSE, FALSE))
      wrF  == Fires(fault, l4, "Write")
      l5   == Append(l4, Ev("Write", fileName, <<>>, ~wrF))
      fs5  == [fs4 EXCEPT ![Len(fs4)].body = <<s>>, ![Len(fs4)].flushed = TRUE]
      syF  == Fires(fault, l5, "Sync")
      l6   == Append(l5, Ev("Sync", fileName, <<>>, ~syF))
      fs6  == [fs5 EXCEPT ![Len(fs5)].synced = TRUE]
      Deferred(err, l, f) == Done(err, "return", Append(l, Ev("Close", fileName, <<>>, TRUE)), f)
  IN
  IF rsF THEN Done(StepErr("ReadSchema"), "return", l1, fs)
  ELSE IF shF THEN Done(StepErr("Schema"), "return", l2, fs)
  ELSE IF crF THEN Done(StepErr("Create"), "return", l4, fs)
  ELSE IF wrF THEN Deferred(StepErr("Write"), l5, fs4)
  ELSE IF syF THEN Deferred(StepErr("Sync"), l6, fs5)
  ELSE Deferred(NilErr, l6, fs6)

\* the absolute directory the files are written to
savePath == "/out"

\* filepath.Join(savePath, fmt.Sprintf("%s%s.avro", prefix, table)), as the
\* sequence of its parts
FileName(prefix, table, ext) == <<savePath, prefix, table, ext>>

\* what SqliteToAvro hands back
Exported(files, err, exit, log, fs) ==
  [files |-> files, err |-> err, exit |-> exit, log |-> log, fs |-> fs]

\* the table loop of SqliteToAvro from table i on; x is the last step done.
\* What TableToOCF and TableToJSON hand back is bound as the element of a
\* set, so that it is computed once and not at each of its uses.
RECURSIVE exportLoop(_, _, _, _, _, _, _, _, _)
exportLoop(db, ts, i, prefix, includeJSON, enhancer, files, x, fault) ==
  IF i > Len(ts) THEN Exported(files, NilErr, "return", x.log, x.fs)
  ELSE LET fileName     == FileName(prefix, ts[i], ".avro")
           files1       == Append(files, fileName)
           jsonFileName == FileName(prefix, ts[i], ".json")
           files2       == Append(files1, jsonFileName)
       IN Only({IF o.err # NilErr \/ o.exit # "return"
                THEN Exported(files, o.err, o.exit, o.log, o.fs)
                ELSE IF ~includeJSON
                THEN exportLoop(db, ts, i + 1, prefix, includeJSON, enhancer, files1, o, fault)
                ELSE Only({IF j.err # NilErr
                           THEN Exported(files1, j.err, j.exit, j.log, j.fs)
                           ELSE exportLoop(db, ts, i + 1, prefix, includeJSON, enhancer,
                                           files2, j, fault) :
                             j \in {TableToJSON(db, ts[i], jsonFileName, enhancer, o.log,
                                                o.fs, fault)}}) :
                  o \in {TableToOCF(db, ts[i], fileName, enhancer, x.log, x.fs, fault)}})

SqliteToAvro(db, prefix, includeJSON, enhancer, fault) ==
  LET ltF == fault.op = "ListTables"
      l1  == <<Ev("ListTables", <<>>, <<>>, ~ltF)>>
      abF == fault.op = "Abs"
      l2  == Append(l1, Ev("Abs", <<>>, <<>>, ~abF))
  IN
  IF ltF THEN Exported(<<>>, StepErr("ListTables"), "return", l1, <<>>)
  ELSE IF abF THEN Exported(<<>>, StepErr("Abs"), "return", l2, <<>>)
  ELSE exportLoop(db, ListTables(db), 1, prefix, includeJSON, enhancer, <<>>,
                  Done(NilErr, "return", l2, <<>>), fault)

(***************************************************************************)
(* What the last call of the row codec, of LoadAvro or of the export was   *)
(* given and what it gave back.                                            *)
(***************************************************************************)
Res(op, args, count, err, exit, isNil, rows, files, log, fs) ==
  [op |-> op, args |-> args, count |-> count, err |-> err, exit |-> exit,
   isNil |-> isNil, rows |-> rows, files |-> files, log |-> log, fs |-> fs]

NoResult == Res("none", <<>>, 0, NilErr, "return", TRUE, <<>>, <<>>, <<>>, <<>>)

(***************************************************************************)
(* State: the catalog of table "foo", the SqliteSchema the caller holds    *)
(* (NoSchema before it has one) and the last call with what it returned.   *)
(***************************************************************************)
NoSchema == SqliteSchema("", <<>>, <<>>)

Ret(op, arg, err, record, avro, value, visited) ==
  [op |-> op, arg |-> arg, err |-> err, record |-> record, avro |-> avro,
   value |-> value, visited |-> visited]

NoCall == Ret("none", 0, NilErr, NilRecord, NilSchema, GoNil, 0)

InitCatalogs(maxColumns) ==
  /\ \E k \in 0..maxColumns : \E ns \in ColumnNames(k) : \E as \in [1..k -> ColumnAttrs] :
       catalog = MakeCatalog(ns, as)
  /\ schema = NoSchema
  /\ out = NoCall
  /\ tables = (IF catalog = <<>> THEN <<>> ELSE <<"foo">>)
  /\ data = <<>>
  /\ stream = <<>>
  /\ dest = EmptyStore
  /\ res = NoResult

Init == InitCatalogs(MaxFields)

\* schema, err := ReadSchema(db, tableName); arg keeps the name asked for
CallReadSchema ==
  /\ \E tableName \in TableNames :
       /\ schema' = ReadSchema(IF tableName = "foo" THEN catalog ELSE <<>>, tableName)
       /\ out' = Ret("ReadSchema", tableName, NilErr, NilRecord, NilSchema, GoNil, 0)
  /\ UNCHANGED catalog
  /\ UNCHANGED ioVars

\* the caller writes a schema by hand for a table the database does not have
NewSchema ==
  /\ catalog = <<>>
  /\ schema = NoSchema
  /\ \E table \in TableNames : \E k \in 0..MaxFields : \E fs \in [1..k -> LiteralFields] :
       schema' = SqliteSchema(table, fs, <<"CREATE TABLE", table>>)
  /\ out' = NoCall
  /\ UNCHANGED catalog
  /\ UNCHANGED ioVars

\* avroSchema, err := schema.ToAvro()
CallToAvro ==
  /\ schema # NoSchema
  /\ LET r == ToAvro(schema) IN
       out' = Ret("ToAvro", 0, r.err, r.record, NilSchema, GoNil, r.visited)
  /\ UNCHANGED <<catalog, schema>>
  /\ UNCHANGED ioVars

Next == CallReadSchema \/ NewSchema \/ CallToAvro

Spec == Init /\ [][Next]_vars

(***************************************************************************)
(* The unit view: one field, written by hand or read from a one-column     *)
(* table, on which the type mapper, AvroDefault and ToAvro are called.     *)
(***************************************************************************)
FieldInit == InitCatalogs(1)

NewSchemaField ==
  /\ catalog = <<>>
  /\ schema = NoSchema
  /\ \E f \in UnitFields : schema' = SqliteSchema("foo", <<f>>, <<"CREATE TABLE", "foo">>)
  /\ out' = NoCall
  /\ UNCHANGED catalog
  /\ UNCHANGED ioVars

\* sqliteTypeToAvroSchema(field.Type, field.Nullable) on field i
CallTypeMapper ==
  /\ \E i \in 1..Len(schema.Fields) :
       LET m == sqliteTypeToAvroSchema(schema.Fields[i].Type, schema.Fields[i].Nullable) IN
         out' = Ret("sqliteTypeToAvroSchema", i, m.err, NilRecord, m.schema, GoNil, 0)
  /\ UNCHANGED <<catalog, schema>>
  /\ UNCHANGED ioVars

\* field.AvroDefault() on field i
CallAvroDefault ==
  /\ \E i \in 1..Len(schema.Fields) :
       out' = Ret("AvroDefault", i, NilErr, NilRecord, NilSchema,
                  AvroDefault(schema.Fields[i]), 0)
  /\ UNCHANGED <<catalog, schema>>
  /\ UNCHANGED ioVars

FieldNext ==
  CallReadSchema \/ NewSchemaField \/ CallTypeMapper \/ CallAvroDefault \/ CallToAvro

FieldSpec == FieldInit /\ [][FieldNext]_vars

(***************************************************************************)
(* The cursors of the store.  Each query of ListTables, tableExists,       *)
(* ReadSchema and LoadData opens a cursor (sql.Rows) that the function     *)
(* reads row by row and releases with a deferred rows.Close().  The        *)
(* operators below follow one call under a fault of the store: the query   *)
(* number at that fails (op "Query"), or the Scan of row at of the cursor  *)
(* fails (op "Scan", and "ScanSql" for the one row of the creation         *)
(* statement).  They hand back the value and the error the function        *)
(* returns, and log, the operations made on the store in order: a query    *)
(* with its text, each Scan with the text of its cursor and the row        *)
(* number, and each rows.Close with the text of its cursor.                *)
(***************************************************************************)
Rows(val, err, log) == [val |-> val, err |-> err, log |-> log]

masterQuery == <<"SELECT name FROM sqlite_master WHERE type='table'">>

existsQuery(table) == <<"SELECT name FROM sqlite_master WHERE type='table' AND name=?", table>>

tableInfoQuery(table) == <<"sqliteTableInfoQuery", table>>

creationSqlQuery(table) == <<"sqliteTableCreationSqlQuery", table>>

selectQuery(table) == <<"SELECT * FROM", table>>

\* mutant: the cursor is released on the return without error only
deferClose_OnSuccessOnly(r, sql) ==
  IF r.err = NilErr THEN [r EXCEPT !.log = Append(@, Ev("rows.Close", sql, <<>>, TRUE))] ELSE r

\* defer rows.Close(): the cursor of sql is released when the function
\* returns r
deferClose(r, sql) == [r EXCEPT !.log = Append(@, Ev("rows.Close", sql, <<>>, TRUE))]

\* mutant: every row of the cursor is kept
RECURSIVE listTablesLoop_KeepSpecial(_, _, _, _, _)
listTablesLoop_KeepSpecial(master, i, names, log, fault) ==
  IF i > Len(master) THEN Rows(names, NilErr, log)
  ELSE IF fault = Fault("Scan", i)
  THEN Rows(names, StoreErr("Scan"), Append(log, Ev("Scan", masterQuery, <<i>>, FALSE)))
  ELSE listTablesLoop_KeepSpecial(master, i + 1, Append(names, master[i]),
                                  Append(log, Ev("Scan", masterQuery, <<i>>, TRUE)), fault)

\* the row loop of ListTables from row i of the cursor on; names is the
\* slice tables
RECURSIVE listTablesLoop(_, _, _, _, _)
listTablesLoop(master, i, names, log, fault) ==
  IF i > Len(master) THEN Rows(names, NilErr, log)
  ELSE IF fault = Fault("Scan", i)
  THEN Rows(names, StoreErr("Scan"), Append(log, Ev("Scan", masterQuery, <<i>>, FALSE)))
  ELSE listTablesLoop(master, i + 1,
                      IF master[i] \in sqliteSpecialTables THEN names
                      ELSE Append(names, master[i]),
                      Append(log, Ev("Scan", masterQuery, <<i>>, TRUE)), fault)

\* tables, err := ListTables(db)
ListTablesCursor(db, fault) ==
  IF fault = Fault("Query", 1)
  THEN Rows(<<>>, StoreErr("Query"), <<Ev("Query", masterQuery, <<>>, FALSE)>>)
  ELSE deferClose(listTablesLoop(db.master, 1, <<>>, <<Ev("Query", masterQuery, <<>>, TRUE)>>,
                                 fault),
                  masterQuery)

\* exists, err := tableExists(db, table): rows.Next() tells whether the
\* cursor has a row
tableExistsCursor(db, table, fault) ==
  IF fault = Fault("Query", 1)
  THEN Rows(FALSE, StoreErr("Query"), <<Ev("Query", existsQuery(table), <<>>, FALSE)>>)
  ELSE deferClose(Rows(tableExists(db, table), NilErr,
                       <<Ev("Query", existsQuery(table), <<>>, TRUE)>>),
                  existsQuery(table))

\* the column loop of ReadSchema from row i of the first cursor on; the
\* fields built are those of ReadSchema(cols, table)
RECURSIVE readSchemaLoop(_, _, _, _, _)
readSchemaLoop(cols, table, i, log, fault) ==
  IF i > Len(cols) THEN Rows(ReadSchema(cols, table), NilErr, log)
  ELSE IF fault = Fault("Scan", i)
  THEN Rows(NoSchema, StoreErr("Scan"),
            Append(log, Ev("Scan", tableInfoQuery(table), <<i>>, FALSE)))
  ELSE readSchemaLoop(cols, table, i + 1,
                      Append(log, Ev("Scan", tableInfoQuery(table), <<i>>, TRUE)), fault)

\* ReadSchema once its second cursor is open: the creation statement is
\* scanned if sqlite_master has a row for the table, then the columns are
\* read
readSchemaRows(db, table, log, fault) ==
  IF table \notin Range(db.master) THEN readSchemaLoop(<<>>, table, 1, log, fault)
  ELSE IF fault = Fault("ScanSql", 1)
  THEN Rows(NoSchema, StoreErr("Scan"),
            Append(log, Ev("Scan", creationSqlQuery(table), <<1>>, FALSE)))
  ELSE readSchemaLoop(db.cols, table, 1,
                      Append(log, Ev("Scan", creationSqlQuery(table), <<1>>, TRUE)), fault)

\* schema, err := ReadSchema(db, tableName); NoSchema is the nil schema
ReadSchemaCursor(db, table, fault) ==
  LET q1 == Ev("Query", tableInfoQuery(table), <<>>, TRUE)
      q2 == Ev("Query", creationSqlQuery(table), <<>>, TRUE)
  IN
  IF fault = Fault("Query", 1)
  THEN Rows(NoSchema, StoreErr("Query"), <<[q1 EXCEPT !.ok = FALSE]>>)
  ELSE deferClose(IF fault = Fault("Query", 2)
                  THEN Rows(NoSchema, StoreErr("Query"), <<q1, [q2 EXCEPT !.ok = FALSE]>>)
                  ELSE deferClose(readSchemaRows(db, table, <<q1, q2>>, fault),
                                  creationSqlQuery(table)),
                  tableInfoQuery(table))

\* the row loop of LoadData from row i of the cursor on; entries is the
\* slice data
RECURSIVE loadDataLoop(_, _, _, _, _, _)
loadDataLoop(rows, table, i, entries, log, fault) ==
  IF i > Len(rows) THEN Rows(entries, NilErr, log)
  ELSE IF fault = Fault("Scan", i)
  THEN Rows(entries, StoreErr("Scan"),
            Append(log, Ev("Scan", selectQuery(table), <<i>>, FALSE)))
  ELSE loadDataLoop(rows, table, i + 1, Append(entries, rows[i]),
                    Append(log, Ev("Scan", selectQuery(table), <<i>>, TRUE)), fault)

\* data, err := LoadData(db, table): the query of a table the database does
\* not have fails
LoadDataCursor(db, table, fault) ==
  IF fault = Fault("Query", 1) \/ table \notin Range(db.master)
  THEN Rows(<<>>, StoreErr("Query"), <<Ev("Query", selectQuery(table), <<>>, FALSE)>>)
  ELSE deferClose(loadDataLoop(db.rows, table, 1, <<>>,
                               <<Ev("Query", selectQuery(table), <<>>, TRUE)>>, fault),
                  selectQuery(table))

(***************************************************************************)
(* Inputs of the row codec, of LoadAvro and of the export: tables of       *)
(* columns id and name in that order, whose rows are numbered from 1; row  *)
(* i holds i in an integer column and the i-th text in any other column, a *)
(* NULL being possible in the last row where the column allows it.         *)
(***************************************************************************)
IoNames == <<"id", "name">>

IoColumnAttrs ==
  {<<"INTEGER", 1, NullString(FALSE, <<>>)>>, <<"TEXT", 0, NullString(FALSE, <<>>)>>,
   <<"VARCHAR", 0, NullString(FALSE, <<>>)>>}

IoCatalogs(least) ==
  UNION {{MakeCatalog(SubSeq(IoNames, 1, k), as) : as \in [1..k -> IoColumnAttrs]} :
           k \in least..Len(IoNames)}

\* the texts of the rows the tests insert
FixtureTexts == <<<<"b", "a", "r">>, <<"b", "a", "t">>, <<"b", "a", "z">>>>

TextOf(i) == GoString(IF i <= Len(FixtureTexts) THEN FixtureTexts[i] ELSE <<"x">>)

SourceRow(cols, i, null) ==
  [c \in {cols[j].name : j \in 1..Len(cols)} |->
     LET col == cols[CHOOSE j \in 1..Len(cols) : cols[j].name = c] IN
     IF null /\ col.notnull = 0 THEN GoNil
     ELSE IF ToLower(col.type) = SqliteInteger THEN GoInt64(i)
     ELSE TextOf(i)]

SourceRows(cols) ==
  IF cols = <<>> THEN {<<>>}
  ELSE {[i \in 1..n |-> SourceRow(cols, i, null /\ i = n)] : n \in 0..MaxRecords,
                                                             null \in BOOLEAN}

\* the rows a destination table holds from before: the three rows of the
\* tests or the first of them
OldRow(cols, i) == [c \in Range(cols) |-> IF c = "id" THEN GoInt64(i) ELSE TextOf(i)]

InitialStores(cols) ==
  LET names == IF cols = <<>> THEN IoNames ELSE [j \in 1..Len(cols) |-> cols[j].name] IN
  {EmptyStore} \cup
  {[EmptyStore EXCEPT !["foo"] = Table(TRUE, names, [i \in 1..k |-> OldRow(names, i)])] :
     k \in 0..Len(FixtureTexts)}

LoadFaults ==
  {NoFault, Fault("Query", 1), Fault("Exec", 1), Fault("Prepare", 1)} \cup
  {Fault("Insert", i) : i \in 1..MaxRecords}

(***************************************************************************)
(* The import view: a table is read and encoded into a stream (ReadData);  *)
(* the stream may get damaged on its way; it is decoded (ReadAvro) or      *)
(* loaded into the destination database (LoadAvro).                        *)
(***************************************************************************)
LoadInit ==
  /\ catalog \in IoCatalogs(0)
  /\ schema = NoSchema
  /\ out = NoCall
  /\ tables = (IF catalog = <<>> THEN <<>> ELSE <<"foo">>)
  /\ data \in SourceRows(catalog)
  /\ stream = <<>>
  /\ dest \in InitialStores(catalog)
  /\ res = NoResult

\* ab, err := ReadData(db, schema.Table, a) with a the translation of schema
CallReadData ==
  /\ schema # NoSchema
  /\ ToAvro(schema).err = NilErr
  /\ LET r == IF schema.Table \in Range(tables)
              THEN ReadData(data, ToAvro(schema).record)
              ELSE [bytes |-> <<>>, err |-> StoreErr("Query")]
     IN /\ stream' = r.bytes
        /\ res' = Res("ReadData", <<>>, 0, r.err, "return", r.err # NilErr, <<>>, <<>>,
                      <<>>, <<>>)
  /\ UNCHANGED <<catalog, schema, out, tables, data, dest>>

\* the stream loses its last token, or gets bytes that encode nothing
Corrupt ==
  /\ res.op = "ReadData"
  /\ res.err = NilErr
  /\ \E cut \in BOOLEAN :
       /\ cut => stream # <<>>
       /\ stream' = IF cut THEN SubSeq(stream, 1, Len(stream) - 1)
                    ELSE Append(stream, BadToken)
  /\ res' = NoResult
  /\ UNCHANGED <<catalog, schema, out, tables, data, dest>>

\* out, err := ReadAvro(a, r) with a the translation of schema
CallReadAvro ==
  /\ schema # NoSchema
  /\ ToAvro(schema).err = NilErr
  /\ LET r == ReadAvro(ToAvro(schema).record, stream) IN
       res' = Res("ReadAvro", [schema |-> schema], 0, r.err, r.exit, r.isNil, r.rows, <<>>, <<>>, <<>>)
  /\ UNCHANGED <<catalog, schema, out, tables, data, stream, dest>>

\* the count of the call before, when that call was a LoadAvro of the same
\* schema and stream that returned no error; <<>> otherwise
LoadedBefore ==
  IF res.op = "LoadAvro" /\ res.err = NilErr /\ res.exit = "return" THEN <<res.count>>
  ELSE <<>>

\* n, err := LoadAvro(outDb, schema, r); args keeps the fault of the store,
\* the database as it was before the call, the schema given and what the
\* call before has returned
CallLoadAvro ==
  /\ schema # NoSchema
  /\ \E fault \in LoadFaults :
       LET r == LoadAvro(dest, schema, stream, fault) IN
         /\ dest' = r.db
         /\ res' = Res("LoadAvro",
                       [fault |-> fault, before |-> dest, schema |-> schema,
                        prev |-> LoadedBefore],
                       r.count, r.err, r.exit, FALSE, <<>>, <<>>, r.log, <<>>)
  /\ UNCHANGED <<catalog, schema, out, tables, data, stream>>

LoadNext == CallReadSchema \/ CallReadData \/ Corrupt \/ CallReadAvro \/ CallLoadAvro

LoadSpec == LoadInit /\ [][LoadNext]_vars

(***************************************************************************)
(* The export view: a database of some tables is exported by SqliteToAvro, *)
(* with or without an enhancer, under at most one fault.                   *)
(***************************************************************************)
\* the most occurrences of one step during a call that a fault is tried on
MaxOccurrence == 4

\* the rows of sqlite_master: tables in any order, the bookkeeping table of
\* AUTOINCREMENT possibly among them
MasterLists ==
  LET names == TableNames \cup sqliteSpecialTables IN
  UNION {{ts \in [1..k -> names] : \A i, j \in 1..k : ts[i] = ts[j] => i = j} :
           k \in 0..Cardinality(names)}

Prefixes == {"", "pre_"}

Enhancers == {NilEnhancer, noopEnhancer, Enhancer(FALSE, TRUE)}

ExportSteps ==
  {"ListTables", "Abs", "ReadSchema", "Schema", "Create", "NewEncoder", "LoadData", "Row",
   "Encode", "Flush", "Sync", "Write"}

\* ListTables and filepath.Abs are called once
ExportFaults ==
  {NoFault} \cup
  {f \in {Fault(op, at) : op \in ExportSteps, at \in 1..MaxOccurrence} :
     f.op \in {"ListTables", "Abs"} => f.at = 1}

\* the fault is the one that has made a step of log fail
Fired(fault, log) ==
  \E i \in DOMAIN log :
    /\ log[i].op = fault.op
    /\ ~log[i].ok
    /\ fault.at = Count(SubSeq(log, 1, i), fault.op)

\* the columns every table of the database has: one or two columns, no two
\* of one type
ExportCatalogs ==
  {c \in IoCatalogs(1) : \A i, j \in 1..Len(c) :
     /\ c[i].type # "VARCHAR"
     /\ c[i].type = c[j].type => i = j}

ExportInit ==
  /\ catalog \in ExportCatalogs
  /\ schema = NoSchema
  /\ out = NoCall
  /\ tables \in MasterLists
  /\ data \in SourceRows(catalog)
  /\ stream = <<>>
  /\ dest = EmptyStore
  /\ res = NoResult

\* files, err := SqliteToAvro(db, path, prefix, includeJSON, enhancer), once
\* on a database; args keeps the arguments and the fault that has fired, if
\* any
CallSqliteToAvro ==
  /\ res = NoResult
  /\ \E prefix \in Prefixes : \E includeJSON \in BOOLEAN : \E enhancer \in Enhancers :
     \E fault \in ExportFaults :
       LET r == SqliteToAvro(SourceDb(tables, catalog, data), prefix, includeJSON, enhancer,
                             fault)
       IN /\ fault.op \in {"Schema", "Row"} => ~enhancer.isNil
          /\ fault = NoFault \/ Fired(fault, r.log)
          /\ res' = Res("SqliteToAvro",
                        [prefix |-> prefix, includeJSON |-> includeJSON,
                         enhancer |-> enhancer, fault |-> fault],
                        0, r.err, r.exit, FALSE, <<>>, r.files, r.log, r.fs)
  /\ UNCHANGED <<catalog, schema, out, tables, data, stream, dest>>

ExportNext == CallSqliteToAvro

ExportSpec == ExportInit /\ [][ExportNext]_vars

(***************************************************************************)
(* The store view: one of the cursor functions is called on a database of  *)
(* some tables under at most one fault of the store; the schema ReadSchema *)
(* has returned is then used to encode the table and to load the stream    *)
(* into the destination database.                                          *)
(***************************************************************************)
\* the faults of a call that reads a cursor of n rows after queries queries
CursorFaults(queries, n) ==
  {NoFault} \cup {Fault("Query", q) : q \in 1..queries} \cup {Fault("Scan", i) : i \in 1..n}

\* the destination has no table, or table foo with one row from before
StoreDests(cols) == {d \in InitialStores(cols) : Len(d["foo"].rows) = 1 \/ ~d["foo"].exists}

StoreInit ==
  /\ catalog \in ExportCatalogs
  /\ schema = NoSchema
  /\ out = NoCall
  /\ tables \in MasterLists
  /\ data \in SourceRows(catalog)
  /\ stream = <<>>
  /\ dest \in StoreDests(catalog)
  /\ res = NoResult

\* no call has been made yet
Fresh == res = NoResult /\ schema = NoSchema /\ stream = <<>>

\* tables, err := ListTables(db)
CallListTables ==
  /\ Fresh
  /\ \E fault \in CursorFaults(1, Len(tables)) :
       LET r == ListTablesCursor(SourceDb(tables, catalog, data), fault) IN
         res' = Res("ListTables", [fault |-> fault], 0, r.err, "return", FALSE, r.val, <<>>,
                    r.log, <<>>)
  /\ UNCHANGED <<catalog, schema, out, tables, data, stream, dest>>

\* exists, err := tableExists(db, table) on the destination database
CallTableExists ==
  /\ Fresh
  /\ \E table \in TableNames : \E fault \in CursorFaults(1, 0) :
       LET r == tableExistsCursor(dest, table, fault) IN
         res' = Res("tableExists", [fault |-> fault, table |-> table], 0, r.err, "return",
                    FALSE, <<r.val>>, <<>>, r.log, <<>>)
  /\ UNCHANGED <<catalog, schema, out, tables, data, stream, dest>>

\* schema, err := ReadSchema(db, tableName), through its two cursors
CallReadSchemaCursor ==
  /\ Fresh
  /\ \E table \in TableNames :
     \E fault \in CursorFaults(2, IF table \in Range(tables) THEN Len(catalog) ELSE 0)
                    \cup {Fault("ScanSql", 1)} :
       LET r == ReadSchemaCursor(SourceDb(tables, catalog, data), table, fault) IN
         /\ fault.op = "ScanSql" => table \in Range(tables)
         /\ schema' = r.val
         /\ res' = Res("ReadSchema", [fault |-> fault, table |-> table], 0, r.err, "return",
                       r.err # NilErr, <<>>, <<>>, r.log, <<>>)
  /\ UNCHANGED <<catalog, out, tables, data, stream, dest>>

\* data, err := LoadData(db, table)
CallLoadData ==
  /\ Fresh
  /\ \E table \in TableNames :
     \E fault \in CursorFaults(1, IF table \in Range(tables) THEN Len(data) ELSE 0) :
       LET r == LoadDataCursor(SourceDb(tables, catalog, data), table, fault) IN
         res' = Res("LoadData", [fault |-> fault, table |-> table], 0, r.err, "return",
                    FALSE, r.val, <<>>, r.log, <<>>)
  /\ UNCHANGED <<catalog, schema, out, tables, data, stream, dest>>

StoreNext ==
  \/ CallListTables
  \/ CallTableExists
  \/ CallReadSchemaCursor
  \/ CallLoadData
  \/ CallReadData
  \/ Corrupt
  \/ CallLoadAvro

StoreSpec == StoreInit /\ [][StoreNext]_vars

(***************************************************************************)
(* Properties.                                                             *)
(***************************************************************************)
SixTypes == {SqliteNull, SqliteInteger, SqliteReal, SqliteText, SqliteBlob, SqliteBoolean}

\* the fixed table of the type mapper, written out
TablePrimitive(t) ==
  CASE t = "null" -> "null" [] t = "integer" -> "long" [] t = "real" -> "double"
    [] t = "text" -> "string" [] t = "blob" -> "bytes" [] t = "boolean" -> "boolean"

\* the field the last unit call was made on
CalledField == schema.Fields[out.arg]

\* the schema the caller holds was read from the catalog of table "foo"
FromCatalog == catalog # <<>> /\ schema # NoSchema /\ schema.Table = "foo"

\* C1: for each of the six storage types and nullable=false, the type mapper
\* returns no error and exactly the bare primitive of the fixed table
\* (integer -> long, the 64-bit type).
C1_BarePrimitive ==
  (out.op = "sqliteTypeToAvroSchema" /\ ~CalledField.Nullable /\ CalledField.Type \in SixTypes)
    => /\ out.err = NilErr
       /\ out.avro = [type |-> TablePrimitive(CalledField.Type), branches |-> <<>>]

C1_Witness ==
  /\ out.op = "sqliteTypeToAvroSchema"
  /\ ~CalledField.Nullable
  /\ CalledField.Type = "integer"
  /\ out.avro = [type |-> "long", branches |-> <<>>]

\* C2 as stated: for each of the six storage types, Null included, and
\* nullable=true, the type mapper succeeds with the union [null, primitive].
C2_Original ==
  (out.op = "sqliteTypeToAvroSchema" /\ CalledField.Nullable /\ CalledField.Type \in SixTypes)
    => /\ out.err = NilErr
       /\ out.avro = [type |-> "union",
                      branches |-> <<"null", TablePrimitive(CalledField.Type)>>]

\* C2 (amended): for integer, real, text, blob and boolean with nullable=true
\* the type mapper succeeds with the two-branch union [null, primitive]; for
\* Null with nullable=true the union [null, null] is rejected and the mapper
\* returns an error and no schema.
C2_NullableUnion ==
  (out.op = "sqliteTypeToAvroSchema" /\ CalledField.Nullable /\ CalledField.Type \in SixTypes)
    => IF CalledField.Type = "null"
       THEN out.err # NilErr /\ out.avro = NilSchema
       ELSE /\ out.err = NilErr
            /\ out.avro = [type |-> "union",
                           branches |-> <<"null", TablePrimitive(CalledField.Type)>>]

C2_Witness ==
  /\ out.op = "sqliteTypeToAvroSchema"
  /\ CalledField.Nullable
  /\ CalledField.Type = "blob"
  /\ out.avro = [type |-> "union", branches |-> <<"null", "bytes">>]

\* C3: AvroDefault of a nullable field is the no-default sentinel, whatever
\* the field's type and whatever its Default holds.
C3_NullableNoDefault ==
  (out.op = "AvroDefault" /\ CalledField.Nullable) => out.value = NoDefault

C3_Witness ==
  /\ out.op = "AvroDefault"
  /\ CalledField.Nullable
  /\ CalledField.Type = "integer"
  /\ CalledField.Default.k = "string"
  /\ out.value = NoDefault

\* C4 as stated: a NOT NULL integer column with catalog default text abc makes
\* ReadSchema then ToAvro fail (no schema); with text 4 the resolved default
\* is the integer 4.
C4_UnparsableDefaultFails ==
  (/\ out.op = "ToAvro"
   /\ FromCatalog
   /\ catalog[1].type \in {"INTEGER", "integer"}
   /\ catalog[1].notnull = 1
   /\ catalog[1].dflt.Valid)
    => /\ catalog[1].dflt.String = <<"a", "b", "c">>
            => (out.err # NilErr /\ out.record = NilRecord)
       /\ catalog[1].dflt.String = <<"4">>
            => /\ out.err = NilErr
               /\ out.record.fields[1].hasDef
               /\ out.record.fields[1].def = [k |-> "int64", n |-> 4, e |-> 0, s |-> <<>>]

\* C5 as stated: for a NOT NULL column without a declared default the default
\* resolved after ReadSchema is "no default", for every storage type.
C5_AbsentDefaultIsNoDefault ==
  (/\ out.op = "AvroDefault"
   /\ FromCatalog
   /\ catalog[out.arg].notnull = 1
   /\ ~catalog[out.arg].dflt.Valid)
    => out.value = NoDefault

\* C6: for a non-nullable integer, real, text or blob field, AvroDefault
\* returns the Default unchanged when it is of the type's native Go type
\* (int64, float64, string, []byte) and the type's zero value (0, 0.0, "",
\* empty bytes) otherwise; it returns a value, never an error.
C6_ZeroValueFallback ==
  (/\ out.op = "AvroDefault"
   /\ ~CalledField.Nullable
   /\ CalledField.Type \in {"integer", "real", "text", "blob"})
    => LET t == CalledField.Type
           d == CalledField.Default
           native == CASE t = "integer" -> "int64" [] t = "real" -> "float64"
                       [] t = "text" -> "string" [] t = "blob" -> "bytes"
           zero == CASE t = "integer" -> [k |-> "int", n |-> 0, e |-> 0, s |-> <<>>]
                     [] t = "real" -> [k |-> "float64", n |-> 0, e |-> 0, s |-> <<>>]
                     [] t = "text" -> [k |-> "string", n |-> 0, e |-> 0, s |-> <<>>]
                     [] t = "blob" -> [k |-> "bytes", n |-> 0, e |-> 0, s |-> <<>>]
       IN /\ out.err = NilErr
          /\ out.value = IF d.k = native THEN d ELSE zero

C6_Witness ==
  /\ out.op = "AvroDefault"
  /\ ~CalledField.Nullable
  /\ CalledField.Type = "text"
  /\ CalledField.Default.k = "int"
  /\ out.value = [k |-> "string", n |-> 0, e |-> 0, s |-> <<>>]

\* C7 as stated: a NOT NULL boolean column whose catalog default text parses
\* as an integer resolves, through ReadSchema and AvroDefault, to the boolean
\* (integer # 0): 1 (or any nonzero integer) to true, 0 to false.
C7_BooleanDefaultFromText ==
  (/\ out.op = "AvroDefault"
   /\ FromCatalog
   /\ catalog[out.arg].type = "BOOLEAN"
   /\ catalog[out.arg].notnull = 1
   /\ catalog[out.arg].dflt.Valid
   /\ catalog[out.arg].dflt.String \in {<<"0">>, <<"1">>, <<"4">>, <<"-", "7">>})
    => out.value = [k |-> "bool", e |-> 0, s |-> <<>>,
                    n |-> IF catalog[out.arg].dflt.String = <<"0">> THEN 0 ELSE 1]

\* field i of the held schema converts: its type maps and NewField accepts
\* its name, mapped type and AvroDefault
FieldConverts(i) ==
  LET m == sqliteTypeToAvroSchema(schema.Fields[i].Type, schema.Fields[i].Nullable) IN
    /\ m.err = NilErr
    /\ NewField(schema.Fields[i].Name, m.schema, AvroDefault(schema.Fields[i])).err = NilErr

\* foo(id Integer non-null default 0, name Text non-null default "mb")
ExampleSchemaFields ==
  << [Name |-> "id", Type |-> "integer", Nullable |-> FALSE,
      Default |-> [k |-> "int64", n |-> 0, e |-> 0, s |-> <<>>]],
     [Name |-> "name", Type |-> "text", Nullable |-> FALSE,
      Default |-> [k |-> "string", n |-> 0, e |-> 0, s |-> <<"m", "b">>]] >>

\* [id:long default 0, name:string default "mb"] in the fixed namespace
ExampleRecord ==
  [name |-> "foo", namespace |-> "com.github.britt.avrosqlite",
   fields |-> << [name |-> "id", typ |-> [type |-> "long", branches |-> <<>>],
                  hasDef |-> TRUE, def |-> [k |-> "int64", n |-> 0, e |-> 0, s |-> <<>>]],
                 [name |-> "name", typ |-> [type |-> "string", branches |-> <<>>],
                  hasDef |-> TRUE,
                  def |-> [k |-> "string", n |-> 0, e |-> 0, s |-> <<"m", "b">>]] >>]

HasUnknownType == \E i \in 1..Len(schema.Fields) : schema.Fields[i].Type \notin SixTypes

\* the first such field in declaration order
FirstUnknown ==
  CHOOSE j \in 1..Len(schema.Fields) :
    /\ schema.Fields[j].Type \notin SixTypes
    /\ \A k \in 1..(j - 1) : schema.Fields[k].Type \in SixTypes

\* the type mapper's error on an unknown type carries the type value
MapperErrorCarriesType ==
  \A i \in 1..Len(schema.Fields) :
    schema.Fields[i].Type \notin SixTypes =>
      \A b \in BOOLEAN :
        /\ sqliteTypeToAvroSchema(schema.Fields[i].Type, b).schema = NilSchema
        /\ sqliteTypeToAvroSchema(schema.Fields[i].Type, b).err
             = [kind |-> "unknown sqlite type", cause |-> "", value |-> schema.Fields[i].Type]

\* C10 as stated: with a field of unknown storage type, the mapper's error
\* carries the type value and ToAvro aborts at the first such field: no
\* schema, an error wrapping the mapper's error, no later field converted.
C10_Original ==
  (out.op = "ToAvro" /\ HasUnknownType) =>
    /\ MapperErrorCarriesType
    /\ out.record = NilRecord
    /\ out.visited = FirstUnknown
    /\ out.err = [kind |-> "failed to convert sqlite type to avro schema",
                  cause |-> "unknown sqlite type",
                  value |-> schema.Fields[FirstUnknown].Type]

\* C10 (amended): with a field of unknown storage type, the mapper's error
\* carries the type value and ToAvro returns no schema and an error; it
\* aborts at the first field in declaration order whose conversion fails.
\* That is the first unknown-type field when every earlier field converts,
\* and the error then wraps the mapper's unknown-type error; otherwise it is
\* an earlier field that does not convert.  No later field is converted.
C10_AbortAtFirstFailure ==
  (out.op = "ToAvro" /\ HasUnknownType) =>
    /\ MapperErrorCarriesType
    /\ out.record = NilRecord
    /\ out.err # NilErr
    /\ out.visited \in 1..FirstUnknown
    /\ \A k \in 1..(out.visited - 1) : FieldConverts(k)
    /\ ~FieldConverts(out.visited)
    /\ out.visited = FirstUnknown =>
         out.err = [kind |-> "failed to convert sqlite type to avro schema",
                    cause |-> "unknown sqlite type",
                    value |-> schema.Fields[FirstUnknown].Type]

C10_Witness ==
  /\ out.op = "ToAvro"
  /\ Len(schema.Fields) >= 2
  /\ schema.Fields[1].Type = "text"
  /\ schema.Fields[2].Type = "varchar"
  /\ out.visited = 2
  /\ out.err.value = "varchar"

(***************************************************************************)
(* Properties of the import view.                                          *)
(***************************************************************************)
\* the last call was LoadAvro and it returned
LoadReturned == res.op = "LoadAvro" /\ res.exit = "return"

\* s is the schema of the table whose rows are data, and the stream is the
\* encoding of the first k of these rows under the translation of s
StreamHolds(s, k) ==
  /\ s.Table \in Range(tables)
  /\ ToAvro(s).err = NilErr
  /\ ReadData(SubSeq(data, 1, k), ToAvro(s).record) = [bytes |-> stream, err |-> NilErr]

\* C11: after a LoadAvro that returns no error the destination table holds
\* exactly the rows the stream encodes, in stream order, each value under the
\* column named by its field, whatever rows the table held before the call.
C11_LoadReplacesRows ==
  (LoadReturned /\ res.err = NilErr) =>
    \E k \in 0..Len(data) :
      /\ StreamHolds(res.args.schema, k)
      /\ dest[res.args.schema.Table].rows = SubSeq(data, 1, k)

\* a table of three rows has been loaded from a stream of two records
C11_Witness ==
  /\ LoadReturned /\ res.err = NilErr
  /\ Len(res.args.before["foo"].rows) = 3
  /\ Len(data) = 2 /\ StreamHolds(res.args.schema, 2)
  /\ Len(dest["foo"].rows) = 2
  /\ dest["foo"].rows[1] # dest["foo"].rows[2]

\* the existence check of the last LoadAvro was made and answered
ExistenceChecked ==
  /\ res.op = "LoadAvro"
  /\ \E i \in DOMAIN res.log : res.log[i].op = "Query" /\ res.log[i].ok

\* the table LoadAvro was to load existed before the call
Existed == tableExists(res.args.before, res.args.schema.Table)

\* C12: once LoadAvro knows whether the table exists it executes exactly one
\* statement without parameters, right after the check: the stored creation
\* statement, verbatim, when the table was absent, DELETE FROM the table when
\* it was present; every insert comes after that statement and only if it
\* succeeded.
C12_CreateOrDeleteFirst ==
  ExistenceChecked =>
    /\ {i \in DOMAIN res.log : res.log[i].op = "Exec"} = {2}
    /\ res.log[2].sql = IF Existed THEN <<"DELETE FROM", res.args.schema.Table>>
                        ELSE res.args.schema.Sql
    /\ \A i \in DOMAIN res.log : res.log[i].op = "Insert" => (i > 2 /\ res.log[2].ok)

\* an absent table was created by the stored statement, then rows went in
C12_Witness ==
  /\ ExistenceChecked /\ ~Existed
  /\ res.log[2] = Ev("Exec", <<"CREATE TABLE", "foo">>, <<>>, TRUE)
  /\ \E i \in DOMAIN res.log : res.log[i].op = "Insert" /\ res.log[i].ok
  /\ dest["foo"].exists

\* the inserts of the last LoadAvro that succeeded
Inserted == SelectSeq(res.log, LAMBDA e : e.op = "Insert" /\ e.ok)

\* C13: whenever LoadAvro returns, with or without an error, the count it
\* returns is the number of records the call has inserted into the table.
C13_CountIsInserted == LoadReturned => res.count = Len(Inserted)

\* the inserts the last LoadAvro has attempted, in order
Attempted == SelectSeq(res.log, LAMBDA e : e.op = "Insert")

\* the values of row j of the table in the order of the fields of schema s
RowValues(s, j) == [f \in 1..Len(s.Fields) |-> data[j][s.Fields[f].Name]]

\* C14: LoadAvro makes one insert for each record it decodes, in stream
\* order and with the values of that record; at the first insert that fails
\* nothing more is decoded or inserted, the rows inserted before stay in the
\* table, and the call returns the number of inserts that succeeded with the
\* error of the failed insert.
C14_StopAtFirstFailedInsert ==
  res.op = "LoadAvro" =>
    /\ \A i \in DOMAIN res.log :
         (res.log[i].op = "Decode" /\ res.log[i].ok) =>
           (i < Len(res.log) /\ res.log[i + 1].op = "Insert")
    /\ \A j \in DOMAIN Attempted :
         j <= Len(data) /\ Attempted[j].args = RowValues(res.args.schema, j)
    /\ \A i \in DOMAIN res.log :
         (res.log[i].op = "Insert" /\ ~res.log[i].ok) =>
           /\ \A m \in (i + 1)..Len(res.log) : res.log[m].op = "Close"
           /\ res.exit = "return"
           /\ res.err = StoreErr("Insert")
           /\ res.count = Len(Inserted)
           /\ dest[res.args.schema.Table].rows = SubSeq(data, 1, Len(Inserted))

\* the second insert of a stream of two records has failed
C14_Witness ==
  /\ res.op = "LoadAvro"
  /\ Len(data) = 2 /\ StreamHolds(res.args.schema, 2)
  /\ Len(Attempted) = 2 /\ Attempted[1].ok /\ ~Attempted[2].ok
  /\ res.count = 1
  /\ dest["foo"].rows = <<data[1]>>

\* the last call was ReadAvro and it returned
ReadReturned == res.op = "ReadAvro" /\ res.exit = "return"

\* C15: the rows of a table, encoded in order and decoded by ReadAvro under
\* the same schema, come back as a sequence of the same length whose i-th row
\* equals the i-th row encoded.
C15_RoundTrip ==
  (ReadReturned /\ StreamHolds(res.args.schema, Len(data))) =>
    /\ res.err = NilErr
    /\ res.rows = data

\* C16: ReadAvro of an empty stream returns an empty slice that is not nil
\* and no error; a stream that ends where a record ends is decoded to its end
\* without error, one row per record.
C16_EndOfStreamIsNoError ==
  ReadReturned =>
    /\ stream = <<>> => (res.err = NilErr /\ ~res.isNil /\ res.rows = <<>>)
    /\ \A k \in 0..Len(data) :
         StreamHolds(res.args.schema, k) => (res.err = NilErr /\ Len(res.rows) = k)

\* the empty stream, and a stream of two records, read to the end
C16_Witness ==
  /\ ReadReturned
  /\ Len(res.args.schema.Fields) > 0
  /\ \/ stream = <<>> /\ res.rows = <<>> /\ ~res.isNil /\ res.err = NilErr
     \/ Len(data) = 2 /\ StreamHolds(res.args.schema, 2) /\ Len(res.rows) = 2

\* the stream begins with the encoding of the first k rows
HoldsPrefix(s, k) ==
  LET e == ReadData(SubSeq(data, 1, k), ToAvro(s).record) IN
  /\ s.Table \in Range(tables)
  /\ e.err = NilErr
  /\ Len(e.bytes) <= Len(stream)
  /\ SubSeq(stream, 1, Len(e.bytes)) = e.bytes

\* the number of whole records at the head of the stream
WellFormed(s) ==
  CHOOSE k \in 0..Len(data) :
    HoldsPrefix(s, k) /\ \A m \in (k + 1)..Len(data) : ~HoldsPrefix(s, m)

\* C17: when ReadAvro fails on a record that follows k well-formed records,
\* it returns the error together with k rows, which equal the first k records
\* encoded.
C17_PartialResultKept ==
  (ReadReturned /\ res.err # NilErr /\ HoldsPrefix(res.args.schema, 0)) =>
    /\ ~res.isNil
    /\ res.rows = SubSeq(data, 1, WellFormed(res.args.schema))

(***************************************************************************)
(* Properties of the export view.                                          *)
(***************************************************************************)
ExportCalled == res.op = "SqliteToAvro"

\* the paths SqliteToAvro is to write for the tables ts, in order
RECURSIVE PathsOf(_, _, _)
PathsOf(ts, prefix, includeJSON) ==
  IF ts = <<>> THEN <<>>
  ELSE <<<<savePath, prefix, Head(ts), ".avro">>>>
       \o (IF includeJSON THEN <<<<savePath, prefix, Head(ts), ".json">>>> ELSE <<>>)
       \o PathsOf(Tail(ts), prefix, includeJSON)

ExpectedPaths ==
  PathsOf(SelectSeq(tables, LAMBDA t : t # "sqlite_sequence"), res.args.prefix,
          res.args.includeJSON)

\* the steps of the last call that have failed
FailedSteps == {i \in DOMAIN res.log : ~res.log[i].ok}

\* the files written out in full: flushed and synced
CompletedPaths ==
  LET done == SelectSeq(res.fs, LAMBDA f : f.flushed /\ f.synced) IN
  [i \in DOMAIN done |-> done[i].path]

\* C18: SqliteToAvro writes the files of the user tables one at a time, in
\* the order of ListTables, the .avro of a table before its .json and both
\* before the next table; the list it returns holds exactly the paths of the
\* files flushed and synced, and when a step fails the call returns the error
\* of that step and that list, and does nothing more.
C18_CompletedPrefix ==
  ExportCalled =>
    /\ Len(res.fs) <= Len(ExpectedPaths)
    /\ \A i \in DOMAIN res.fs : res.fs[i].path = ExpectedPaths[i]
    /\ \A i \in 1..(Len(res.fs) - 1) : res.fs[i].flushed /\ res.fs[i].synced
    /\ res.exit = "return"
    /\ res.files = CompletedPaths
    /\ res.err = NilErr => res.files = ExpectedPaths
    /\ \A i \in FailedSteps :
         /\ res.err # NilErr
         /\ res.log[i].op # "ToAvro" => res.err = StepErr(res.log[i].op)
         /\ \A m \in (i + 1)..Len(res.log) : res.log[m].op = "Close"

\* the same, but for the calls in which the creation of the container
\* encoder has failed
C18_ButEncoderFault ==
  (\A i \in FailedSteps : res.log[i].op # "NewEncoder") => C18_CompletedPrefix

\* the table a file is about
TableOf(path) == path[3]

\* the calls of the Row hook and of the encoder for the file at path
RowSteps(path) == SelectSeq(res.log, LAMBDA e : e.op \in {"Row", "Encode"} /\ e.sql = path)

\* what the hooks of the enhancer given make of the schema and of the rows
\* of a table; a nil enhancer is to leave both as they are
EnhancedSchema(table) ==
  LET s == ReadSchema(catalog, table) IN
  IF res.args.enhancer.isNil THEN s ELSE hookSchema(res.args.enhancer, s)

EnhancedRows ==
  IF res.args.enhancer.isNil THEN data
  ELSE [i \in DOMAIN data |-> hookRow(res.args.enhancer, data[i])]

\* every schema read is handed to the Schema hook at once, and the schema is
\* translated or marshalled right after the hook and only if it succeeded
SchemaHookAfterRead ==
  \A i \in DOMAIN res.log :
    /\ res.log[i].op = "Schema" =>
         (i > 1 /\ res.log[i - 1] = Ev("ReadSchema", res.log[i].sql, <<>>, TRUE))
    /\ (res.log[i].op = "ReadSchema" /\ res.log[i].ok) =>
         (i < Len(res.log) /\ res.log[i + 1].op = "Schema")
    /\ res.log[i].op \in {"ToAvro", "Marshal"} =>
         (i > 1 /\ res.log[i - 1] = Ev("Schema", res.log[i].sql, <<>>, TRUE))

\* for each container file: Row 1, Encode 1, Row 2, Encode 2, ... with no
\* failure but at the last step, and all the rows when the file is complete
RowHookBeforeEncode ==
  \A f \in DOMAIN res.fs :
    res.fs[f].path[4] = ".avro" =>
      LET h == RowSteps(res.fs[f].path) IN
      /\ \A j \in DOMAIN h :
           /\ h[j].op = (IF j % 2 = 1 THEN "Row" ELSE "Encode")
           /\ h[j].args = <<(j + 1) \div 2>>
           /\ j < Len(h) => h[j].ok
      /\ (res.fs[f].flushed /\ res.fs[f].synced) =>
           (Len(h) = 2 * Len(data) /\ \A j \in DOMAIN h : h[j].ok)

\* a hook that fails ends the call with its error, nothing is encoded after
HookErrorStops ==
  \A i \in FailedSteps :
    res.log[i].op \in {"Schema", "Row"} =>
      /\ res.exit = "return"
      /\ res.err = StepErr(res.log[i].op)
      /\ \A m \in (i + 1)..Len(res.log) : res.log[m].op = "Close"

\* the files hold what the hooks have made of the schema and of the rows,
\* and so the table as it is when the enhancer is nil
FilesHoldEnhanced ==
  \A f \in DOMAIN res.fs :
    LET file == res.fs[f]
        s    == EnhancedSchema(TableOf(file.path))
    IN (file.flushed /\ file.synced) =>
         IF file.path[4] = ".json" THEN file.body = <<s>>
         ELSE /\ file.header = ToAvro(s).record
              /\ file.body = ReadData(EnhancedRows, ToAvro(s).record).bytes

\* the Schema hook is called once for a table
SchemaHookOncePerTable ==
  \A t \in Range(tables) :
    Len(SelectSeq(res.log, LAMBDA e : e.op = "Schema" /\ e.sql = <<t>>)) <= 1

\* the Schema hook is called once for each file of a table
SchemaHookOncePerFile ==
  \A t \in Range(tables) :
    Len(SelectSeq(res.log, LAMBDA e : e.op = "Schema" /\ e.sql = <<t>>))
      = Len(SelectSeq(res.log, LAMBDA e : e.op = "ReadSchema" /\ e.ok /\ e.sql = <<t>>))

\* C19 as stated: during the export of a table the Schema hook is called
\* exactly once, after the schema is read and before it is translated, and
\* the Row hook once per row, in row order, before the row is encoded; a hook
\* that fails ends the export with its error; a nil enhancer changes nothing.
C19_Original ==
  ExportCalled =>
    /\ SchemaHookOncePerTable
    /\ SchemaHookAfterRead
    /\ RowHookBeforeEncode
    /\ HookErrorStops
    /\ FilesHoldEnhanced

\* C19, amended: the Schema hook is called once for each file written for a
\* table, on the schema read for that file and before that schema is
\* translated (container file) or marshalled (JSON file), so twice per table
\* when includeJSON is set; the Row hook is called once per row, in row
\* order, before the row is encoded; a hook that fails ends the export with
\* its error and nothing is encoded after; a nil enhancer changes nothing.
C19_HooksPerFile ==
  ExportCalled =>
    /\ SchemaHookOncePerFile
    /\ SchemaHookAfterRead
    /\ RowHookBeforeEncode
    /\ HookErrorStops
    /\ FilesHoldEnhanced

\* a table of two rows exported with its JSON under hooks that edit
C19_Witness ==
  /\ ExportCalled
  /\ res.args.includeJSON /\ res.args.enhancer.edits
  /\ res.err = NilErr
  /\ Len(data) = 2 /\ Len(catalog) = 2
  /\ Len(res.files) >= 2
  /\ Count(res.log, "Row") >= 2
  /\ Count(res.log, "Schema") >= 2

\* C20: every step of an export that fails makes the call return an error:
\* the process goes on, the error is not nil, and the step is not made again.
C20_FaultsReturned ==
  ExportCalled =>
    \A i \in FailedSteps :
      /\ res.exit = "return"
      /\ res.err # NilErr
      /\ \A m \in (i + 1)..Len(res.log) : res.log[m].op = "Close"


\* the position of table t in the rows of sqlite_master
MasterIndex(t) == CHOOSE i \in DOMAIN tables : tables[i] = t

\* C21: a call of ListTables that returns no error returns every table of
\* sqlite_master except sqlite_sequence, each once and in the order of
\* sqlite_master; sqlite_sequence is in no list that ListTables returns.
C21_UserTablesInOrder ==
  res.op = "ListTables" =>
    /\ "sqlite_sequence" \notin Range(res.rows)
    /\ res.err = NilErr =>
         /\ Range(res.rows) = Range(tables) \ {"sqlite_sequence"}
         /\ \A j, k \in DOMAIN res.rows :
              /\ res.rows[j] = res.rows[k] => j = k
              /\ j < k => MasterIndex(res.rows[j]) < MasterIndex(res.rows[k])

\* ListTables has returned foo and meats from a database that also has
\* sqlite_sequence
C21_Witness ==
  /\ res.op = "ListTables"
  /\ res.err = NilErr
  /\ "sqlite_sequence" \in Range(tables)
  /\ res.rows \in {<<"foo", "meats">>, <<"meats", "foo">>}


\* the columns the catalog has for the table ReadSchema was asked for
AskedColumns == IF out.arg = "foo" THEN catalog ELSE <<>>

\* C22: the schema ReadSchema returns has the requested name as Table and
\* one field per column of the catalog, in the order of the columns, with
\* the column's name, its declared type in lower case, Nullable true
\* exactly when notnull is 0, and the no-default sentinel as Default when
\* the column declares no default.
C22_FieldsFollowCatalog ==
  out.op = "ReadSchema" =>
    /\ schema.Table = out.arg
    /\ Len(schema.Fields) = Len(AskedColumns)
    /\ \A i \in 1..Len(AskedColumns) :
         /\ schema.Fields[i].Name = AskedColumns[i].name
         /\ schema.Fields[i].Type = ToLower(AskedColumns[i].type)
         /\ schema.Fields[i].Nullable = (AskedColumns[i].notnull = 0)
         /\ ~AskedColumns[i].dflt.Valid => schema.Fields[i].Default = NoDefault

\* ReadSchema of foo(id INTEGER PRIMARY KEY AUTOINCREMENT, name TEXT)
C22_Witness ==
  /\ out.op = "ReadSchema"
  /\ out.arg = "foo"
  /\ catalog = <<Column("id", "INTEGER", 0, NullString(FALSE, <<>>)),
                 Column("name", "TEXT", 0, NullString(FALSE, <<>>))>>
  /\ schema.Fields = <<SchemaField("id", "integer", TRUE, NoDefault),
                       SchemaField("name", "text", TRUE, NoDefault)>>


\* two fields of the schema have one name
DuplicateNames(s) ==
  \E i, j \in 1..Len(s.Fields) : i # j /\ s.Fields[i].Name = s.Fields[j].Name

\* C23: ToAvro of a schema with two fields of the same name fails and
\* returns no record schema, and the fields of a record schema that ToAvro
\* returns have pairwise distinct names.
C23_DuplicateNamesRejected ==
  out.op = "ToAvro" =>
    /\ DuplicateNames(schema) => (out.err # NilErr /\ out.record = NilRecord)
    /\ out.err = NilErr =>
         \A i, j \in 1..Len(out.record.fields) :
           out.record.fields[i].name = out.record.fields[j].name => i = j


\* the calls of the encoder for the container file at path
EncodeSteps(path) == SelectSeq(res.log, LAMBDA e : e.op = "Encode" /\ e.sql = path)

\* the position of row j as an error message gives it
RowText(j) == IF j <= 5 THEN <<"row 1", "row 2", "row 3", "row 4", "row 5">>[j] ELSE "row"

\* the error the claim has the encode loop return for row j: it carries the
\* position of the row and wraps the encoder's error
EncodeError(j, cause) == Err("EncodeError", cause.kind, RowText(j))

\* C24: the encode loop of TableToOCF hands the rows to the encoder in the
\* order LoadData has returned them; at the first row the encoder rejects
\* it stops, no later row is encoded, and the error returned carries the
\* position of that row and wraps the encoder's error.
C24_EncodeStopsWithPosition ==
  ExportCalled =>
    \A f \in DOMAIN res.fs :
      res.fs[f].path[4] = ".avro" =>
        LET h == EncodeSteps(res.fs[f].path) IN
        \A j \in DOMAIN h :
          /\ h[j].args = <<j>>
          /\ j < Len(h) => h[j].ok
          /\ ~h[j].ok => (res.exit = "return" /\ res.err = EncodeError(j, StepErr("Encode")))

\* what holds of the encode loop: order, stop at the first rejected row, and
\* the encoder's own error returned as it is
C24_ButBareError ==
  ExportCalled =>
    \A f \in DOMAIN res.fs :
      res.fs[f].path[4] = ".avro" =>
        LET h == EncodeSteps(res.fs[f].path) IN
        \A j \in DOMAIN h :
          /\ h[j].args = <<j>>
          /\ j < Len(h) => h[j].ok
          /\ ~h[j].ok => (res.exit = "return" /\ res.err = StepErr("Encode"))


\* C25: a LoadAvro that returns no error right after a LoadAvro of the same
\* schema and stream that returned no error leaves the table with the rows
\* the first one left and returns the same count.
C25_ReloadReplaces ==
  (LoadReturned /\ res.err = NilErr /\ res.exit = "return" /\ res.args.prev # <<>>) =>
    /\ dest = res.args.before
    /\ res.args.prev = <<res.count>>

\* the second of two loads of a stream of records: it has found the table,
\* deleted its rows and inserted them again
C25_Witness ==
  /\ LoadReturned
  /\ res.err = NilErr
  /\ res.exit = "return"
  /\ res.args.prev = <<MaxRecords>>
  /\ res.count = MaxRecords
  /\ res.log[2] = Ev("Exec", <<"DELETE FROM", res.args.schema.Table>>, <<>>, TRUE)
  /\ Len(dest[res.args.schema.Table].rows) = MaxRecords


\* the error of the type mapper on the field at which ToAvro has stopped
MapperErrAtVisited ==
  sqliteTypeToAvroSchema(schema.Fields[out.visited].Type,
                         schema.Fields[out.visited].Nullable).err

\* ToAvro has stopped at a field whose storage type the mapper rejects
MapperFailed ==
  /\ out.op = "ToAvro"
  /\ out.err # NilErr
  /\ out.visited \in 1..Len(schema.Fields)
  /\ MapperErrAtVisited # NilErr

\* what an error tells: its message, the error it wraps and the value that
\* error carries
Tells(e) == {e.kind, e.cause, e.value}

\* C26: the error ToAvro returns when the type mapper rejects a field wraps
\* the mapper's error and tells the name of that field.
C26_ErrorNamesField ==
  MapperFailed =>
    /\ out.err = Wrap("failed to convert sqlite type to avro schema", MapperErrAtVisited)
    /\ schema.Fields[out.visited].Name \in Tells(out.err)

\* what holds: the error wraps the mapper's error, under a fixed message
C26_ButWrapsOnly ==
  MapperFailed =>
    out.err = Wrap("failed to convert sqlite type to avro schema", MapperErrAtVisited)


\* C27: a LoadAvro whose schema does not translate returns 0 and the error
\* of the translation without any operation on the store: no query, no
\* statement executed or prepared, and the database is as it was.
C27_NoTranslationNoStore ==
  (res.op = "LoadAvro" /\ ToAvro(res.args.schema).err # NilErr) =>
    /\ res.exit = "return"
    /\ res.count = 0
    /\ res.err = ToAvro(res.args.schema).err
    /\ res.log = <<>>
    /\ dest = res.args.before

\* LoadAvro has been given a schema that does not translate, for a table
\* that holds rows
C27_Witness ==
  /\ res.op = "LoadAvro"
  /\ ToAvro(res.args.schema).err # NilErr
  /\ res.err # NilErr
  /\ dest[res.args.schema.Table].exists
  /\ Len(dest[res.args.schema.Table].rows) > 0


\* the last LoadAvro has failed after its first statement had succeeded
FailedAfterFirstStatement ==
  /\ LoadReturned
  /\ res.err # NilErr
  /\ Len(res.log) >= 2
  /\ res.log[2].op = "Exec"
  /\ res.log[2].ok

\* C28: when LoadAvro returns an error after its create-or-delete statement
\* has succeeded (the prepare, a decode or an insert has failed), the table
\* exists and holds exactly the rows of the inserts of this call that
\* succeeded, which are the first records of the stream in order; the rows
\* it held before the call are gone.
C28_NoRollback ==
  FailedAfterFirstStatement =>
    /\ dest[res.args.schema.Table].exists
    /\ Len(Inserted) <= Len(data)
    /\ dest[res.args.schema.Table].rows = SubSeq(data, 1, Len(Inserted))
    /\ \A j \in DOMAIN Inserted : Inserted[j].args = RowValues(res.args.schema, j)

\* a table of three rows is left with the one record decoded before the
\* stream turned out damaged
C28_Witness ==
  /\ FailedAfterFirstStatement
  /\ res.err # StoreErr("Insert")
  /\ res.err # StoreErr("Prepare")
  /\ Len(res.args.before["foo"].rows) = 3
  /\ Len(data) = 2
  /\ dest["foo"].rows = <<data[1]>>


\* C29: a LoadAvro whose schema translates returns to its caller, a count
\* and possibly an error, whatever the number of fields of the schema.
C29_LoadAlwaysReturns ==
  (res.op = "LoadAvro" /\ ToAvro(res.args.schema).err = NilErr) => res.exit = "return"


\* the calls that read cursors of the store
CursorCalls == {"ListTables", "tableExists", "ReadSchema", "LoadData"}

\* the cursor opened at step i of the last call is released at a later step,
\* once, and nothing is read from it afterwards
ReleasedAfter(i) ==
  \E j \in (i + 1)..Len(res.log) :
    /\ res.log[j] = Ev("rows.Close", res.log[i].sql, <<>>, TRUE)
    /\ \A m \in (j + 1)..Len(res.log) : res.log[m].sql # res.log[i].sql

\* C30: when ListTables, tableExists, ReadSchema or LoadData returns, with
\* or without an error, every cursor its queries have opened has been
\* closed; when LoadAvro returns, the insert statement it has prepared has
\* been closed, as the last thing it does.
C30_CursorsAndStatementClosed ==
  /\ res.op \in CursorCalls =>
       \A i \in DOMAIN res.log :
         (res.log[i].op = "Query" /\ res.log[i].ok) => ReleasedAfter(i)
  /\ res.op = "LoadAvro" =>
       \A i \in DOMAIN res.log :
         (res.log[i].op = "Prepare" /\ res.log[i].ok) =>
           (i < Len(res.log) /\ res.log[Len(res.log)].op = "Close")

\* ReadSchema has failed on the second column, with both of its cursors
\* open, and has closed them, the later one first
C30_Witness ==
  /\ res.op = "ReadSchema"
  /\ res.err = StoreErr("Scan")
  /\ res.args.fault = Fault("Scan", 2)
  /\ Len(res.log) = 7
  /\ res.log[6] = Ev("rows.Close", creationSqlQuery(res.args.table), <<>>, TRUE)
  /\ res.log[7] = Ev("rows.Close", tableInfoQuery(res.args.table), <<>>, TRUE)

====
